---- MODULE Spec2Model ----
(***************************************************************************)
(* Session and streaming orchestration of dashboard-recorder:              *)
(*   - recorder.Worker: the sessions map, the frame cache, StartRecording, *)
(*     StopRecording and the capture loop (internal/recorder/recorder.go)  *)
(*   - auth.InMemoryTicketStore: Generate, Exchange, cleanup               *)
(*     (internal/auth/tickets.go)                                          *)
(*   - api.Handler: StartTask, StopTask, GenerateTicket, WsInteractive     *)
(*     (internal/api/handler.go)                                           *)
(* SpecRec is the recorder's specification, SpecTkt the ticket store's,    *)
(* SpecWs the interactive handshake's.                                     *)
(***************************************************************************)
EXTENDS Integers, FiniteSets, Sequences, TLC

VARIABLES
    \* ---- recorder.Worker and the StartTask / StopTask handlers ----
    taskUrl,       \* tasks table: task id -> target_url
    sessions,      \* Worker.sessions: task id -> cancel function (the call that made it) or None
    latestFrames,  \* Worker.latestFrames: task id -> frame (the call whose loop captured it) or None
    cancelled,     \* recording contexts whose cancel function has been called
    pc,            \* position of each StartTask call and of the goroutine it launches
    ctask,         \* taskID argument of each StartRecording call
    ret,           \* value returned by each StartRecording call
    loopErr,       \* value returned by recordLoop in each goroutine
    recStatus,     \* recordings.status of the row each StartTask call created
    spc,           \* position of each StopTask call
    stask,         \* taskID argument of each StopRecording call
    sfound,        \* the cancel function StopRecording read under the lock
    sret,          \* value returned by each StopRecording call
    sresp,         \* HTTP response of each StopTask call
    \* ---- auth.InMemoryTicketStore and the ticket handlers ----
    now,           \* the wall clock read by time.Now()
    tickets,       \* InMemoryTicketStore.tickets: ticket id -> Ticket or NoTicket
    issued,        \* the Ticket that Generate returned for each ticket id
    wpc,           \* position of each WsInteractive request
    wticket,       \* "ticket" query parameter of each request
    wtask,         \* ":id" path parameter of each request
    wex,           \* result of the Exchange made by each request
    wheld,         \* the *Ticket Exchange returned to the request
    wresp,         \* HTTP status with which the request was refused, or 101 once upgraded
    \* ---- one run of recordLoop from the encoder's start, in detail ----
    fps,           \* the fps argument of recordLoop
    elapsed,       \* time.Since(startTime), in clock units
    framesSent,    \* the framesSent counter of recordLoop
    framesWritten, \* frames that stdin.Write has delivered to the encoder
    tick,          \* what the last pass through the ticker branch did
    ctxDone,       \* the recording context has been cancelled
    ffmpeg,        \* the encoder process: none, running, draining, exited, killed
    stdinOpen,     \* the write end of the encoder's input pipe is open
    ffmpegDone,    \* the value that the ffmpegCmd.Wait goroutine offers on ffmpegDone
    lpc,           \* position of recordLoop
    lret,          \* value returned by recordLoop
    lateTicks,     \* capture ticks recordLoop has completed since its context was cancelled
    \* ---- Worker.HandleInteractive, one entry per interactive session ----
    ipc,           \* position of HandleInteractive (the command loop)
    opc,           \* position of the stream goroutine
    connOpen,      \* the websocket connection has not been closed by the server
    bctxOpen,      \* the session's browser context is open
    ictxDone,      \* the request context of the session has been cancelled
    ierr,          \* the first of a read error and a frame-write error in the session
    iret,          \* value returned by HandleInteractive
    saved,         \* what bCtx.StorageState did in the session: none, written, failed
    pageOp,        \* the last operation an interactive session made on its page
    lastMsg,       \* the last message a command loop has read
    \* ---- the frame cache of one task, with the byte slices it shares ----
    bufs,          \* the byte slices that exist: slice -> content, or NoBytes
    cachedBuf,     \* the slice that latestFrames holds for the task, or None
    gotBufs,       \* the slices that GetLatestFrame calls have returned
    lastGot,       \* the result of the last GetLatestFrame call
    lastPut,       \* the content of the frame stored last and not evicted, or NoBytes
    \* ---- one call of Worker.CapturePreview ----
    ppc,           \* position of the CapturePreview call
    purl,          \* its targetURL argument, as url.Parse and net.LookupIP see it
    pcss,          \* its customCSS argument is not empty
    pbrowser,      \* the Worker has a browser (w.browser is not nil)
    pcheck,        \* what validateURL returned to the call: none, ok, error
    pops,          \* the browser operations the call has made
    pret,          \* what the call returned
    \* ---- one call of calculateJpegQuality ----
    crfIn,         \* the crf argument of the call, or NoCrf
    quality,       \* the JPEG quality the call returned
    \* ---- one call of the upgrader's CheckOrigin ----
    ohdr,          \* the Origin header of the request, in parts
    ohost,         \* r.Host of the request, in parts
    oaccept,       \* what CheckOrigin returned: none, accept, refuse
    \* ---- the setup of one recordLoop run, up to the start of the encoder ----
    upc,           \* position of recordLoop in its setup
    uopts,         \* the timeOverlay and customCSS arguments of the run
    ntpReplies,    \* what each ntp.Query of GetNTPTime answered, in order
    ntpWaits,      \* the time.Sleep calls of GetNTPTime, in units of 500 ms
    ntpRet,        \* what GetNTPTime returned to InjectTimeOverlay
    overlay,       \* the page.AddInitScript call of InjectTimeOverlay and its outcome
    warnings,      \* the failures recordLoop has logged and gone on from
    uencoder,      \* ffmpegCmd.Start has succeeded
    uret,          \* the error with which the setup made recordLoop return
    \* ---- one CreateTask request ----
    tpc,           \* position of the CreateTask request
    tbody,         \* the JSON body of the request, field by field
    tlimit,        \* h.Config.MaxFpsLimit
    tresp,         \* the HTTP response of the request
    trows,         \* the rows the request has inserted into the tasks table
    \* ---- the shutdown of the process ----
    shutdown       \* Worker.Stop has run (main is returning)

loopVars == <<fps, elapsed, framesSent, framesWritten, tick, ctxDone, ffmpeg, stdinOpen,
              ffmpegDone, lpc, lret, lateTicks>>
\* the detailed views of single runs, which the session-level actions leave alone
intVars == <<ipc, opc, connOpen, bctxOpen, ictxDone, ierr, iret, saved, pageOp, lastMsg>>
\* the pure functions and single calls modelled on their own
auxVars == <<bufs, cachedBuf, gotBufs, lastGot, lastPut,
            ppc, purl, pcss, pbrowser, pcheck, pops, pret,
            crfIn, quality,
            ohdr, ohost, oaccept,
            upc, uopts, ntpReplies, ntpWaits, ntpRet, overlay, warnings, uencoder, uret,
            tpc, tbody, tlimit, tresp, trows,
            shutdown>>
sideVars == <<loopVars, intVars, auxVars>>
recVars == <<taskUrl, sessions, latestFrames, cancelled, pc, ctask, ret, loopErr,
             recStatus, spc, stask, sfound, sret, sresp, sideVars>>
stopVars == <<spc, stask, sfound, sret, sresp>>
tktVars == <<now, tickets, issued, wpc, wticket, wtask, wex, wheld, wresp>>
vars == <<taskUrl, sessions, latestFrames, cancelled, pc, ctask, ret, loopErr,
          recStatus, spc, stask, sfound, sret, sresp,
          now, tickets, issued, wpc, wticket, wtask, wex, wheld, wresp,
          fps, elapsed, framesSent, framesWritten, tick, ctxDone, ffmpeg, stdinOpen,
          ffmpegDone, lpc, lret, lateTicks,
          ipc, opc, connOpen, bctxOpen, ictxDone, ierr, iret, saved, pageOp, lastMsg,
          bufs, cachedBuf, gotBufs, lastGot, lastPut,
          ppc, purl, pcss, pbrowser, pcheck, pops, pret,
          crfIn, quality,
          ohdr, ohost, oaccept,
          upc, uopts, ntpReplies, ntpWaits, ntpRet, overlay, warnings, uencoder, uret,
          tpc, tbody, tlimit, tresp, trows,
          shutdown>>

(***************************************************************************)
(* Bounds                                                                  *)
(***************************************************************************)
NumTasks == 2
NumCalls == 2
MaxTickets == 1
NumReqs == 2
MaxTime == 2
MaxTTL == 1

None == 0
Tasks == 1 .. NumTasks
Calls == 1 .. NumCalls
\* One StopTask request.
Stops == {1}

(***************************************************************************)
(* validateURL (the SSRF guard).  A URL is what url.Parse and net.LookupIP *)
(* make of it: whether it parses, its scheme, and the classes of the       *)
(* addresses its host resolves to (empty: the lookup fails).               *)
(***************************************************************************)
PublicURL == [parses |-> TRUE, scheme |-> "https", ips |-> {"public"}]
LoopbackURL == [parses |-> TRUE, scheme |-> "http", ips |-> {"loopback"}]
TargetURLs == {PublicURL, LoopbackURL}

validateURL(u) ==
    /\ u.parses
    /\ u.scheme \in {"http", "https"}
    /\ u.ips # {}
    /\ \A ip \in u.ips : ip \notin {"loopback", "private", "unspecified"}


(***************************************************************************)
(* recorder.Worker: initial state                                          *)
(***************************************************************************)
CallPcs == {"idle", "preflight", "register", "launched", "ffmpeg", "loop", "waiting",
            "status", "teardown1", "teardown2", "done", "returned"}
\* the goroutine is inside recordLoop
InRecordLoop == {"launched", "ffmpeg", "loop", "waiting"}
\* the goroutine exists and its deferred cleanup has not started
BeforeTeardown == InRecordLoop \cup {"status"}
\* between the passed check of StartRecording and the end of the goroutine
InFlight == {"preflight", "register"} \cup BeforeTeardown \cup {"teardown1", "teardown2"}

InitRec ==
    /\ taskUrl = [t \in Tasks |-> IF t = 1 THEN LoopbackURL ELSE PublicURL]
    /\ sessions = [t \in Tasks |-> None]
    /\ latestFrames = [t \in Tasks |-> None]
    /\ cancelled = {}
    /\ pc = [c \in Calls |-> "idle"]
    /\ ctask = [c \in Calls |-> None]
    /\ ret = [c \in Calls |-> "none"]
    /\ loopErr = [c \in Calls |-> "none"]
    /\ recStatus = [c \in Calls |-> "NONE"]
    /\ spc = [s \in Stops |-> "idle"]
    /\ stask = [s \in Stops |-> None]
    /\ sfound = [s \in Stops |-> None]
    /\ sret = [s \in Stops |-> "none"]
    /\ sresp = [s \in Stops |-> 0]

(***************************************************************************)
(* Handler.StartTask and Worker.StartRecording                             *)
(***************************************************************************)
\* Calls are numbered in the order in which they arrive.
InArrivalOrder(c) == IF c = 1 THEN TRUE ELSE pc[c - 1] # "idle"

\* StartRecording returns err to StartTask, which marks the recording FAILED
\* and answers 500.
StartRecordingFails(c, err) ==
    /\ ret' = [ret EXCEPT ![c] = err]
    /\ pc' = [pc EXCEPT ![c] = "returned"]
    /\ recStatus' = [recStatus EXCEPT ![c] = "FAILED"]

\* A StartRecordingCheck that lets every call through.
StartRecordingCheckNoConflict(c, t) ==
    /\ pc[c] = "idle"
    /\ InArrivalOrder(c)
    /\ ctask' = [ctask EXCEPT ![c] = t]
    /\ pc' = [pc EXCEPT ![c] = "preflight"]
    /\ recStatus' = [recStatus EXCEPT ![c] = "RECORDING"]
    /\ UNCHANGED <<ret, taskUrl, sessions, latestFrames, cancelled, loopErr,
                   stopVars, sideVars, tktVars>>

\* StartTask creates the recording row and calls StartRecording, whose first
\* critical section looks the task up in w.sessions and releases the lock.
StartRecordingCheck(c, t) ==
    /\ pc[c] = "idle"
    /\ InArrivalOrder(c)
    /\ ctask' = [ctask EXCEPT ![c] = t]
    /\ IF sessions[t] # None
         THEN StartRecordingFails(c, "conflict")
         ELSE /\ pc' = [pc EXCEPT ![c] = "preflight"]
              /\ recStatus' = [recStatus EXCEPT ![c] = "RECORDING"]
              /\ ret' = ret
    /\ UNCHANGED <<taskUrl, sessions, latestFrames, cancelled, loopErr,
                   stopVars, sideVars, tktVars>>

\* A pre-flight check that reports the failure and goes on.
StartRecordingPreflightNoReturn(c) ==
    /\ pc[c] = "preflight"
    /\ \E out \in {"ok", "mkdir", "perm"} :
         /\ pc' = [pc EXCEPT ![c] = "register"]
         /\ ret' = [ret EXCEPT ![c] = IF out = "ok" THEN ret[c] ELSE out]
         /\ recStatus' = recStatus
    /\ UNCHANGED <<taskUrl, sessions, latestFrames, cancelled, ctask, loopErr,
                   stopVars, sideVars, tktVars>>

\* The pre-flight check, made with no lock held: os.MkdirAll of the output
\* directory, then os.CreateTemp in it.  Either can fail.
StartRecordingPreflight(c) ==
    /\ pc[c] = "preflight"
    /\ \E out \in {"ok", "mkdir", "perm"} :
         IF out = "ok"
           THEN /\ pc' = [pc EXCEPT ![c] = "register"]
                /\ UNCHANGED <<ret, recStatus>>
           ELSE StartRecordingFails(c, out)
    /\ UNCHANGED <<taskUrl, sessions, latestFrames, cancelled, ctask, loopErr,
                   stopVars, sideVars, tktVars>>

\* The second critical section stores the cancel function of a fresh context
\* under the task id; the goroutine is launched and nil is returned.
StartRecordingRegister(c) ==
    /\ pc[c] = "register"
    /\ sessions' = [sessions EXCEPT ![ctask[c]] = c]
    /\ pc' = [pc EXCEPT ![c] = "launched"]
    /\ ret' = [ret EXCEPT ![c] = IF ret[c] = "none" THEN "ok" ELSE ret[c]]
    /\ UNCHANGED <<taskUrl, latestFrames, cancelled, ctask, loopErr, recStatus,
                   stopVars, sideVars, tktVars>>


(***************************************************************************)
(* The goroutine of StartRecording: recordLoop, the status update and the  *)
(* deferred cleanup                                                        *)
(***************************************************************************)
\* recordLoop returns err: the goroutine goes on to the status update.
RecordLoopReturns(c, err) ==
    /\ pc' = [pc EXCEPT ![c] = "status"]
    /\ loopErr' = [loopErr EXCEPT ![c] = err]

\* browser.NewContext, NewPage and page.Goto(url) on the task's target URL, as
\* StartTask read it from the store.  Each can fail.
LoopNavigate(c) ==
    /\ pc[c] = "launched"
    /\ \/ /\ pc' = [pc EXCEPT ![c] = "ffmpeg"]
          /\ loopErr' = loopErr
       \/ \E err \in {"context", "nav"} : RecordLoopReturns(c, err)
    /\ UNCHANGED <<taskUrl, sessions, latestFrames, cancelled, ctask, ret, recStatus,
                   stopVars, sideVars, tktVars>>

\* InjectTimeOverlay and AddStyleTag (a failure is logged and recording goes
\* on), then StdinPipe and ffmpegCmd.Start, which can fail.
LoopStartFfmpeg(c) ==
    /\ pc[c] = "ffmpeg"
    /\ \/ /\ pc' = [pc EXCEPT ![c] = "loop"]
          /\ loopErr' = loopErr
       \/ RecordLoopReturns(c, "ffmpeg")
    /\ UNCHANGED <<taskUrl, sessions, latestFrames, cancelled, ctask, ret, recStatus,
                   stopVars, sideVars, tktVars>>

\* case <-ticker.C: a failed screenshot is skipped; a captured frame is stored
\* in the frame cache and written to the encoder, and a failed write ends the
\* loop.
LoopTick(c) ==
    /\ pc[c] = "loop"
    /\ \/ UNCHANGED <<latestFrames, pc, loopErr>>
       \/ /\ latestFrames' = [latestFrames EXCEPT ![ctask[c]] = c]
          /\ \/ UNCHANGED <<pc, loopErr>>
             \/ RecordLoopReturns(c, "write")
    /\ UNCHANGED <<taskUrl, sessions, cancelled, ctask, ret, recStatus,
                   stopVars, sideVars, tktVars>>

\* case <-ctx.Done(): the encoder's input is closed.
LoopCancel(c) ==
    /\ pc[c] = "loop"
    /\ c \in cancelled
    /\ pc' = [pc EXCEPT ![c] = "waiting"]
    /\ UNCHANGED <<taskUrl, sessions, latestFrames, cancelled, ctask, ret, loopErr,
                   recStatus, stopVars, sideVars, tktVars>>

\* The inner select, case err := <-ffmpegDone: the encoder has exited within
\* the grace period and its exit result (nil or an error) is returned.
LoopEncoderExit(c) ==
    /\ pc[c] = "waiting"
    /\ \E err \in {"nil", "exit"} : RecordLoopReturns(c, err)
    /\ UNCHANGED <<taskUrl, sessions, latestFrames, cancelled, ctask, ret, recStatus,
                   stopVars, sideVars, tktVars>>

\* A wait for the encoder with no time limit.
LoopGraceTimeoutNever(c) ==
    /\ pc[c] = "waiting"
    /\ FALSE
    /\ UNCHANGED vars

\* The inner select, case <-time.After(5 * time.Second): the encoder is killed
\* and the shutdown-timeout error is returned.
LoopGraceTimeout(c) ==
    /\ pc[c] = "waiting"
    /\ RecordLoopReturns(c, "timeout")
    /\ UNCHANGED <<taskUrl, sessions, latestFrames, cancelled, ctask, ret, recStatus,
                   stopVars, sideVars, tktVars>>

\* A status update that reports every ended recording as completed.
GoroutineStatusAlwaysCompleted(c) ==
    /\ pc[c] = "status"
    /\ recStatus' = [recStatus EXCEPT ![c] = "COMPLETED"]
    /\ loopErr' = [loopErr EXCEPT ![c] = "none"]
    /\ pc' = [pc EXCEPT ![c] = "teardown1"]
    /\ UNCHANGED <<taskUrl, sessions, latestFrames, cancelled, ctask, ret,
                   stopVars, sideVars, tktVars>>

\* UpdateRecordingStatus after recordLoop has returned.
GoroutineStatus(c) ==
    /\ pc[c] = "status"
    /\ recStatus' = [recStatus EXCEPT ![c] = IF loopErr[c] = "nil" THEN "COMPLETED" ELSE "FAILED"]
    /\ loopErr' = [loopErr EXCEPT ![c] = "none"]
    /\ pc' = [pc EXCEPT ![c] = "teardown1"]
    /\ UNCHANGED <<taskUrl, sessions, latestFrames, cancelled, ctask, ret,
                   stopVars, sideVars, tktVars>>

\* A deferred cleanup that forgets the frame cache.
TeardownFramesKept(c) ==
    /\ pc[c] = "teardown2"
    /\ pc' = [pc EXCEPT ![c] = "done"]
    /\ UNCHANGED <<taskUrl, sessions, latestFrames, cancelled, ctask, ret, loopErr,
                   recStatus, stopVars, sideVars, tktVars>>

\* Deferred cleanup, first critical section: delete(w.sessions, taskID).
TeardownSession(c) ==
    /\ pc[c] = "teardown1"
    /\ sessions' = [sessions EXCEPT ![ctask[c]] = None]
    /\ pc' = [pc EXCEPT ![c] = "teardown2"]
    /\ UNCHANGED <<taskUrl, latestFrames, cancelled, ctask, ret, loopErr, recStatus,
                   stopVars, sideVars, tktVars>>

\* Deferred cleanup, second critical section: delete(w.latestFrames, taskID).
TeardownFrames(c) ==
    /\ pc[c] = "teardown2"
    /\ latestFrames' = [latestFrames EXCEPT ![ctask[c]] = None]
    /\ pc' = [pc EXCEPT ![c] = "done"]
    /\ UNCHANGED <<taskUrl, sessions, cancelled, ctask, ret, loopErr, recStatus,
                   stopVars, sideVars, tktVars>>

\* GetLatestFrame: the cached frame of the task (a copy), or None.
GetLatestFrame(t) == latestFrames[t]

(***************************************************************************)
(* Handler.StopTask and Worker.StopRecording                               *)
(***************************************************************************)
callVars == <<pc, ctask, ret, loopErr, recStatus>>

\* StopTask requests are numbered in the order in which they arrive.
StopInArrivalOrder(s) == IF s = 1 THEN TRUE ELSE spc[s - 1] # "idle"

\* DisableTask fails: StopTask answers 500 and never calls StopRecording.
StopTaskDbError(s, t) ==
    /\ spc[s] = "idle"
    /\ StopInArrivalOrder(s)
    /\ spc' = [spc EXCEPT ![s] = "returned"]
    /\ stask' = [stask EXCEPT ![s] = t]
    /\ sresp' = [sresp EXCEPT ![s] = 500]
    /\ UNCHANGED <<taskUrl, sessions, latestFrames, cancelled, callVars, sfound, sret,
                   sideVars, tktVars>>

\* StopTask disables the task and calls StopRecording, whose critical section
\* reads w.sessions[taskID].
StopRecordingLookup(s, t) ==
    /\ spc[s] = "idle"
    /\ StopInArrivalOrder(s)
    /\ spc' = [spc EXCEPT ![s] = "looked"]
    /\ stask' = [stask EXCEPT ![s] = t]
    /\ sfound' = [sfound EXCEPT ![s] = sessions[t]]
    /\ UNCHANGED <<taskUrl, sessions, latestFrames, cancelled, callVars, sret, sresp,
                   sideVars, tktVars>>

\* A StopTask that answers 500 when StopRecording returns an error.
StopRecordingFinishFatal(s) ==
    /\ spc[s] = "looked"
    /\ spc' = [spc EXCEPT ![s] = "returned"]
    /\ sfound' = [sfound EXCEPT ![s] = None]
    /\ IF sfound[s] = None
         THEN /\ sret' = [sret EXCEPT ![s] = "notfound"]
              /\ sresp' = [sresp EXCEPT ![s] = 500]
              /\ cancelled' = cancelled
         ELSE /\ cancelled' = cancelled \cup {sfound[s]}
              /\ sret' = [sret EXCEPT ![s] = "ok"]
              /\ sresp' = [sresp EXCEPT ![s] = 200]
    /\ UNCHANGED <<taskUrl, sessions, latestFrames, callVars, stask, sideVars, tktVars>>

\* With the lock released: no entry, StopRecording returns the not-found error;
\* otherwise it calls cancel() and returns nil.  StopTask logs an error and
\* answers 200 "stopped" either way.
StopRecordingFinish(s) ==
    /\ spc[s] = "looked"
    /\ spc' = [spc EXCEPT ![s] = "returned"]
    /\ sfound' = [sfound EXCEPT ![s] = None]
    /\ IF sfound[s] = None
         THEN /\ sret' = [sret EXCEPT ![s] = "notfound"]
              /\ cancelled' = cancelled
         ELSE /\ cancelled' = cancelled \cup {sfound[s]}
              /\ sret' = [sret EXCEPT ![s] = "ok"]
    /\ sresp' = [sresp EXCEPT ![s] = 200]
    /\ UNCHANGED <<taskUrl, sessions, latestFrames, callVars, stask, sideVars, tktVars>>

(***************************************************************************)
(* auth.InMemoryTicketStore                                                *)
(***************************************************************************)
NoTicket == [present |-> FALSE]
\* Ticket ids are 128-bit random values: every Generate draws an id that was
\* never drawn before.  BogusId is an id that no Generate ever returned.
TicketIds == 1 .. MaxTickets
BogusId == MaxTickets + 1
Users == {"admin"}
TTLs == (0 - 1) .. MaxTTL
Reqs == 1 .. NumReqs
BadTaskParam == NumTasks + 1

InitTkt ==
    /\ now = 0
    /\ tickets = [i \in TicketIds |-> NoTicket]
    /\ issued = [i \in TicketIds |-> NoTicket]
    /\ wpc = [r \in Reqs |-> "idle"]
    /\ wticket = [r \in Reqs |-> None]
    /\ wtask = [r \in Reqs |-> None]
    /\ wex = [r \in Reqs |-> "none"]
    /\ wheld = [r \in Reqs |-> NoTicket]
    /\ wresp = [r \in Reqs |-> 0]

wsVars == <<wpc, wticket, wtask, wex, wheld, wresp>>

\* time.Now() advances.
ClockTick ==
    /\ now < MaxTime
    /\ now' = now + 1
    /\ UNCHANGED <<tickets, issued, wsVars, recVars>>

\* The ids Generate has drawn so far.
IssuedIds == {i \in TicketIds : issued[i].present}

\* Generate(userID, taskID, ttl): a fresh id, ExpiresAt = time.Now().Add(ttl),
\* stored under the lock.  issued keeps the returned Ticket and the ttl.
Generate(u, t, ttl) ==
    /\ IssuedIds # TicketIds
    /\ LET id == CHOOSE i \in TicketIds \ IssuedIds :
                     \A j \in TicketIds \ IssuedIds : i <= j
           ticket == [present |-> TRUE, id |-> id, user |-> u, task |-> t,
                      expiresAt |-> now + ttl]
       IN  /\ tickets' = [tickets EXCEPT ![id] = ticket]
           /\ issued' = [issued EXCEPT ![id] = [ticket |-> ticket, ttl |-> ttl,
                                                present |-> TRUE]]
    /\ UNCHANGED <<now, wsVars, recVars>>

\* Exchange, the lookup: is there a record under the id?
ExchangeFound(id) == id \in TicketIds /\ tickets[id].present

\* An Exchange that leaves the record in the store.
ExchangeStoreKeeps(id) == tickets

\* An Exchange that burns the ticket only when it hands it out.
ExchangeStoreOnSuccess(id) ==
    IF ExchangeFound(id) /\ ~(now > tickets[id].expiresAt)
      THEN [tickets EXCEPT ![id] = NoTicket]
      ELSE tickets

\* Exchange, the store it leaves: delete(s.tickets, ticketID) whenever a
\* record was found, before the expiry is looked at.
ExchangeStore(id) ==
    IF ExchangeFound(id) THEN [tickets EXCEPT ![id] = NoTicket] ELSE tickets

\* An Exchange that never looks at the expiry.
ExchangeResultNoExpiry(id) ==
    IF ~ExchangeFound(id) THEN "notfound" ELSE "ok"

\* Exchange, the result: not found, or expired when time.Now() is after
\* ExpiresAt, or the ticket.
ExchangeResult(id) ==
    IF ~ExchangeFound(id) THEN "notfound"
    ELSE IF now > tickets[id].expiresAt THEN "expired"
    ELSE "ok"

\* A sweep that removes every ticket.
cleanupAll ==
    /\ tickets' = [i \in TicketIds |-> NoTicket]
    /\ UNCHANGED <<now, issued, wsVars, recVars>>

\* cleanup, run by the ticker of StartCleanupLoop: under the lock, every ticket
\* with now.After(ExpiresAt) is deleted.
cleanup ==
    /\ tickets' = [i \in TicketIds |->
                     IF tickets[i].present /\ now > tickets[i].expiresAt
                       THEN NoTicket ELSE tickets[i]]
    /\ UNCHANGED <<now, issued, wsVars, recVars>>

(***************************************************************************)
(* Handler.WsInteractive                                                   *)
(***************************************************************************)
\* The request is answered with an error status and no upgrade.
WsRefused(r, status) ==
    /\ wpc' = [wpc EXCEPT ![r] = "refused"]
    /\ wresp' = [wresp EXCEPT ![r] = status]

\* Requests are numbered in the order in which they arrive.
WsInArrivalOrder(r) == IF r = 1 THEN TRUE ELSE wpc[r - 1] # "idle"

\* Steps 1 and 2: the "ticket" query parameter (None: missing or empty) and
\* TicketStore.Exchange.  A client presents an id it was given, or a made-up one.
WsExchange(r, id, t) ==
    /\ wpc[r] = "idle"
    /\ WsInArrivalOrder(r)
    /\ id \in IssuedIds \cup {None, BogusId}
    /\ wticket' = [wticket EXCEPT ![r] = id]
    /\ wtask' = [wtask EXCEPT ![r] = t]
    /\ IF id = None
         THEN /\ WsRefused(r, 401)
              /\ UNCHANGED <<tickets, wex, wheld>>
         ELSE /\ tickets' = ExchangeStore(id)
              /\ wex' = [wex EXCEPT ![r] = ExchangeResult(id)]
              /\ IF ExchangeResult(id) = "ok"
                   THEN /\ wheld' = [wheld EXCEPT ![r] = tickets[id]]
                        /\ wpc' = [wpc EXCEPT ![r] = "exchanged"]
                        /\ wresp' = wresp
                   ELSE /\ WsRefused(r, 401)
                        /\ wheld' = wheld
    /\ UNCHANGED <<now, issued, recVars>>

\* A handler that forgets to compare the ticket's task with the requested one.
WsAuthorizeNoMatch(r) ==
    /\ wpc[r] = "exchanged"
    /\ IF wtask[r] = BadTaskParam
         THEN WsRefused(r, 400)
         ELSE \/ WsRefused(r, 404)
              \/ /\ wpc' = [wpc EXCEPT ![r] = "upgrade"]
                 /\ wresp' = wresp
    /\ UNCHANGED <<now, tickets, issued, wticket, wtask, wex, wheld, recVars>>

\* A handler that puts the ticket back into the store when it refuses the
\* request after the Exchange.
WsAuthorizeGivesBack(r) ==
    /\ wpc[r] = "exchanged"
    /\ \/ /\ IF wtask[r] = BadTaskParam THEN WsRefused(r, 400)
             ELSE IF wheld[r].task # wtask[r] THEN WsRefused(r, 403)
             ELSE WsRefused(r, 404)
          /\ tickets' = [tickets EXCEPT ![wticket[r]] = wheld[r]]
       \/ /\ wtask[r] # BadTaskParam /\ wheld[r].task = wtask[r]
          /\ wpc' = [wpc EXCEPT ![r] = "upgrade"]
          /\ UNCHANGED <<wresp, tickets>>
    /\ UNCHANGED <<now, issued, wticket, wtask, wex, wheld, recVars>>

\* Steps 3 to 5: the ":id" parameter must scan as a number (400), the ticket's
\* TaskID must equal it (403), and GetTask must find the task (404).
WsAuthorize(r) ==
    /\ wpc[r] = "exchanged"
    /\ IF wtask[r] = BadTaskParam
         THEN WsRefused(r, 400)
         ELSE IF wheld[r].task # wtask[r]
           THEN WsRefused(r, 403)
           ELSE \/ WsRefused(r, 404)
                \/ /\ wpc' = [wpc EXCEPT ![r] = "upgrade"]
                   /\ wresp' = wresp
    /\ UNCHANGED <<now, tickets, issued, wticket, wtask, wex, wheld, recVars>>

\* Header values are written in parts: an Origin is "" (no header) or
\* [scheme "http://"] name [port] [a malformed escape]; a Host is name [port].
HostNames == {"example.com", "EXAMPLE.COM", "evil.com"}
Ports == {<<>>, <<":8080">>}
BadEscape == "%zz"
OriginHeaders ==
    {<<>>} \cup
    {s \o <<n>> \o pt \o b : s \in {<<>>, <<"http://">>}, n \in HostNames \cup {"null"},
                             pt \in Ports, b \in {<<>>, <<BadEscape>>}}
RequestHosts == {<<n>> \o pt : n \in HostNames, pt \in Ports}

\* url.Parse(origin): an invalid escape is an error; after "scheme://" the
\* rest (no path follows in an Origin) is the authority and becomes u.Host as
\* written; without "//" nothing is a host and u.Host is empty.
ParseOrigin(o) ==
    IF \E i \in 1 .. Len(o) : o[i] = BadEscape THEN [ok |-> FALSE, Host |-> <<>>]
    ELSE IF Len(o) > 0 /\ o[1] = "http://" THEN [ok |-> TRUE, Host |-> Tail(o)]
    ELSE [ok |-> TRUE, Host |-> <<>>]

\* Unicode simple case folding of a part.
Fold(part) == IF part = "EXAMPLE.COM" THEN "example.com" ELSE part

\* strings.EqualFold(a, b)
EqualFold(a, b) ==
    /\ Len(a) = Len(b)
    /\ \A i \in 1 .. Len(a) : Fold(a[i]) = Fold(b[i])

\* A CheckOrigin that compares the hosts byte for byte.
CheckOriginExact(o, h) ==
    IF o = <<>> THEN TRUE
    ELSE IF ~ParseOrigin(o).ok THEN FALSE
    ELSE ParseOrigin(o).Host = h

\* CheckOrigin of the upgrader: true without an Origin header; false when the
\* Origin does not parse; otherwise strings.EqualFold(u.Host, r.Host).
CheckOrigin(o, h) ==
    IF o = <<>> THEN TRUE
    ELSE IF ~ParseOrigin(o).ok THEN FALSE
    ELSE EqualFold(ParseOrigin(o).Host, h)

\* Steps 6 and 7: upgrader.Upgrade, which answers 403 when CheckOrigin fails;
\* on success the connection is upgraded and HandleInteractive is called.
WsUpgrade(r) ==
    /\ wpc[r] = "upgrade"
    /\ \E origin \in OriginHeaders, host \in RequestHosts :
         IF CheckOrigin(origin, host)
           THEN /\ wpc' = [wpc EXCEPT ![r] = "streaming"]
                /\ wresp' = [wresp EXCEPT ![r] = 101]
           ELSE WsRefused(r, 403)
    /\ UNCHANGED <<now, tickets, issued, wticket, wtask, wex, wheld, recVars>>

\* Handler.GenerateTicket: the caller's user name, the task of the request
\* body, and a time-to-live of 30 seconds.  The clock counts in units of
\* 30 seconds.
TicketTTL == 1

GenerateTicket(t) == Generate("admin", t, TicketTTL)

(***************************************************************************)
(* recordLoop in detail, from the start of the encoder: the frame          *)
(* accounting of the ticker branch and the life of the encoder process.    *)
(* The run is that of call LoopCall for task LoopTask.                     *)
(***************************************************************************)
MaxElapsed == 6
MaxFrames == 5

\* Clock units per second: the clock is read to a tenth of a second.
ClockHz == 10
FpsValues == {2, 5}
LoopTask == 1
LoopCall == 1
NoTick == [captured |-> FALSE, expected |-> 0, before |-> 0, copies |-> 0, written |-> 0]

InitLoop ==
    /\ fps = None
    /\ elapsed = 0
    /\ framesSent = 0
    /\ framesWritten = 0
    /\ tick = NoTick
    /\ ctxDone = FALSE
    /\ ffmpeg = "none"
    /\ stdinOpen = FALSE
    /\ ffmpegDone = "pending"
    /\ lpc = "start"
    /\ lret = "none"
    /\ lateTicks = 0

\* what the loop-level actions leave alone
sessionVars == <<taskUrl, sessions, cancelled, pc, ctask, ret, loopErr, recStatus,
                 stopVars, intVars, auxVars, tktVars>>

\* An expected count that rounds up.
ExpectedFramesCeil(el, f) == (el * f + ClockHz - 1) \div ClockHz

\* expectedFrames := int64(elapsed * float64(fps)), elapsed in seconds.
ExpectedFrames(el, f) == (el * f) \div ClockHz

\* A duplicate count without the minimum of one.
DuplicatesNoClamp(expected, sent) == expected - sent

\* duplicates := expectedFrames - framesSent; if duplicates < 1, duplicates = 1.
Duplicates(expected, sent) ==
    IF expected - sent < 1 THEN 1 ELSE expected - sent

\* StdinPipe and ffmpegCmd.Start: on failure recordLoop returns the error; on
\* success the Wait goroutine, the ticker and startTime are set up.
LoopEncoderStart(f) ==
    /\ lpc = "start"
    /\ fps' = f
    /\ \/ /\ lpc' = "returned"
          /\ lret' = "ffmpeg"
          /\ UNCHANGED <<ffmpeg, stdinOpen>>
       \/ /\ lpc' = "select"
          /\ ffmpeg' = "running"
          /\ stdinOpen' = TRUE
          /\ lret' = lret
    /\ UNCHANGED <<elapsed, framesSent, framesWritten, tick, ctxDone, ffmpegDone,
                   latestFrames, lateTicks, sessionVars>>

\* Wall-clock time passes while the loop runs.
TimePasses ==
    /\ lpc = "select"
    /\ elapsed < MaxElapsed
    /\ elapsed' = elapsed + 1
    /\ UNCHANGED <<fps, framesSent, framesWritten, tick, ctxDone, ffmpeg, stdinOpen,
                   ffmpegDone, lpc, lret, latestFrames, lateTicks, sessionVars>>

\* StopRecording calls the cancel function of the run's context.
ContextCancelled ==
    /\ lpc # "returned"
    /\ ~ctxDone
    /\ ctxDone' = TRUE
    /\ UNCHANGED <<fps, elapsed, framesSent, framesWritten, tick, ffmpeg, stdinOpen,
                   ffmpegDone, lpc, lret, latestFrames, lateTicks, sessionVars>>

\* The encoder closes its end of the input pipe and goes on running (it has
\* hit an error or has all it wants, and finishes its output).
EncoderStopsReading ==
    /\ ffmpeg = "running"
    /\ ffmpeg' = "draining"
    /\ UNCHANGED <<fps, elapsed, framesSent, framesWritten, tick, ctxDone, stdinOpen,
                   ffmpegDone, lpc, lret, latestFrames, lateTicks, sessionVars>>

\* The encoder process exits by itself: on end of input, or on an error.
EncoderExits ==
    /\ ffmpeg \in {"running", "draining"}
    /\ ffmpeg' = "exited"
    /\ UNCHANGED <<fps, elapsed, framesSent, framesWritten, tick, ctxDone, stdinOpen,
                   ffmpegDone, lpc, lret, latestFrames, lateTicks, sessionVars>>

\* go func() { ffmpegDone <- ffmpegCmd.Wait() }: once the process is gone Wait
\* closes the parent's end of the pipe and returns the exit result, which the
\* goroutine offers on the unbuffered channel.
WaitReturns ==
    /\ ffmpeg \in {"exited", "killed"}
    /\ ffmpegDone = "pending"
    /\ \E res \in (IF ffmpeg = "killed" THEN {"exit"} ELSE {"nil", "exit"}) :
         ffmpegDone' = res
    /\ stdinOpen' = FALSE
    /\ UNCHANGED <<fps, elapsed, framesSent, framesWritten, tick, ctxDone, ffmpeg,
                   lpc, lret, latestFrames, lateTicks, sessionVars>>

\* case <-ticker.C: a failed screenshot is skipped.  A captured frame is stored
\* in the frame cache, then written Duplicates times to the encoder's input;
\* the first failing write makes recordLoop return its error, and only after
\* the last write is framesSent increased.  A write fails on a pipe whose
\* reader or writer end is closed.
TickerBranch ==
    /\ lpc = "select"
    /\ \/ /\ tick' = NoTick
          /\ UNCHANGED <<framesSent, framesWritten, ffmpeg, lpc, lret, latestFrames, lateTicks>>
       \/ LET expected == ExpectedFrames(elapsed, fps)
              duplicates == Duplicates(expected, framesSent)
              writable == stdinOpen /\ ffmpeg = "running"
          IN  /\ framesSent + duplicates <= MaxFrames
              /\ latestFrames' = [latestFrames EXCEPT ![LoopTask] = LoopCall]
              /\ lateTicks' = IF ctxDone THEN lateTicks + 1 ELSE lateTicks
              /\ \/ /\ writable
                    /\ framesWritten' = framesWritten + (IF duplicates > 0 THEN duplicates ELSE 0)
                    /\ framesSent' = framesSent + duplicates
                    /\ tick' = [captured |-> TRUE, expected |-> expected,
                                before |-> framesSent, copies |-> duplicates,
                                written |-> IF duplicates > 0 THEN duplicates ELSE 0]
                    /\ UNCHANGED <<ffmpeg, lpc, lret>>
                 \/ \E k \in 0 .. (duplicates - 1) :
                    /\ ~writable => k = 0
                    /\ ffmpeg' = IF writable THEN "draining" ELSE ffmpeg
                    /\ framesWritten' = framesWritten + k
                    /\ tick' = [captured |-> TRUE, expected |-> expected,
                                before |-> framesSent, copies |-> duplicates,
                                written |-> k]
                    /\ lret' = "write"
                    /\ lpc' = "returned"
                    /\ framesSent' = framesSent
    /\ UNCHANGED <<fps, elapsed, ctxDone, stdinOpen, ffmpegDone, sessionVars>>

\* case <-ctx.Done(): stdin.Close(), then the inner select.
CtxDoneBranch ==
    /\ lpc = "select"
    /\ ctxDone
    /\ stdinOpen' = FALSE
    /\ lpc' = "waiting"
    /\ UNCHANGED <<fps, elapsed, framesSent, framesWritten, tick, ctxDone, ffmpeg,
                   ffmpegDone, lret, latestFrames, lateTicks, sessionVars>>

\* Inner select, case err := <-ffmpegDone: return err.
FfmpegDoneBranch ==
    /\ lpc = "waiting"
    /\ ffmpegDone \in {"nil", "exit"}
    /\ lret' = ffmpegDone
    /\ ffmpegDone' = "received"
    /\ lpc' = "returned"
    /\ UNCHANGED <<fps, elapsed, framesSent, framesWritten, tick, ctxDone, ffmpeg,
                   stdinOpen, latestFrames, lateTicks, sessionVars>>

\* A grace timeout that reports the error and leaves the encoder alone.
GraceTimeoutNoKill ==
    /\ lpc = "waiting"
    /\ lret' = "timeout"
    /\ lpc' = "returned"
    /\ UNCHANGED <<fps, elapsed, framesSent, framesWritten, tick, ctxDone, stdinOpen,
                   ffmpeg, ffmpegDone, latestFrames, lateTicks, sessionVars>>

\* Inner select, case <-time.After(5 * time.Second): ffmpegCmd.Process.Kill()
\* and the shutdown-timeout error.
GraceTimeoutBranch ==
    /\ lpc = "waiting"
    /\ ffmpeg' = IF ffmpeg \in {"running", "draining"} THEN "killed" ELSE ffmpeg
    /\ lret' = "timeout"
    /\ lpc' = "returned"
    /\ UNCHANGED <<fps, elapsed, framesSent, framesWritten, tick, ctxDone, stdinOpen,
                   ffmpegDone, latestFrames, lateTicks, sessionVars>>

(***************************************************************************)
(* Worker.HandleInteractive: the command loop, the stream goroutine and    *)
(* the deferred Close calls of each interactive session                    *)
(***************************************************************************)
NumInteractive == 2
Interactive == 1 .. NumInteractive
Events == {"invalid", "click", "type", "key", "save", "unknown"}
\* the event types that the command loop dispatches to the page
PageCommands == {"click", "type", "key"}
NoOp == [k |-> None, op |-> "none", ok |-> TRUE]
NoMsg == [k |-> None, ev |-> "none"]

\* The taskID argument of the session: the ":id" parameter of its request.
InteractiveTask(k) == 1 + ((k - 1) % NumTasks)

InitInt ==
    /\ ipc = [k \in Interactive |-> "setup"]
    /\ opc = [k \in Interactive |-> "none"]
    /\ connOpen = [k \in Interactive |-> TRUE]
    /\ bctxOpen = [k \in Interactive |-> FALSE]
    /\ ictxDone = [k \in Interactive |-> FALSE]
    /\ ierr = [k \in Interactive |-> "none"]
    /\ iret = [k \in Interactive |-> "none"]
    /\ saved = [k \in Interactive |-> "none"]
    /\ pageOp = NoOp
    /\ lastMsg = NoMsg

\* what the actions of an interactive session leave alone
outsideInt == <<taskUrl, sessions, latestFrames, cancelled, callVars, stopVars,
                loopVars, auxVars, tktVars>>

\* A HandleInteractive that returns without closing the browser context.
InteractiveReturnsContextOpen(k, res) ==
    /\ ipc' = [ipc EXCEPT ![k] = "returned"]
    /\ iret' = [iret EXCEPT ![k] = res]
    /\ bctxOpen' = bctxOpen
    /\ connOpen' = [connOpen EXCEPT ![k] = FALSE]

\* HandleInteractive returns res: the deferred bCtx.Close() (once the context
\* exists) and conn.Close() run.
InteractiveReturns(k, res) ==
    /\ ipc' = [ipc EXCEPT ![k] = "returned"]
    /\ iret' = [iret EXCEPT ![k] = res]
    /\ bctxOpen' = [bctxOpen EXCEPT ![k] = FALSE]
    /\ connOpen' = [connOpen EXCEPT ![k] = FALSE]

\* Step 1: MkdirAll, NewContext, NewPage and page.Goto; each can fail, which
\* ends the session.  Then the stream goroutine is launched.
InteractiveSetup(k) ==
    /\ ipc[k] = "setup"
    /\ \/ /\ ipc' = [ipc EXCEPT ![k] = "reading"]
          /\ bctxOpen' = [bctxOpen EXCEPT ![k] = TRUE]
          /\ opc' = [opc EXCEPT ![k] = "running"]
          /\ UNCHANGED <<connOpen, iret>>
       \/ /\ \E err \in {"mkdir", "context", "page", "nav"} : InteractiveReturns(k, err)
          /\ opc' = opc
    /\ UNCHANGED <<ictxDone, ierr, saved, pageOp, lastMsg, outsideInt>>

\* The first error of the session.
FirstError(k, e) == [ierr EXCEPT ![k] = IF ierr[k] = "none" THEN e ELSE ierr[k]]

\* Stream goroutine, case <-ticker.C: a failed screenshot is skipped (it fails
\* once the browser context is closed, and can fail before); a captured frame
\* is sent with conn.WriteMessage and goes nowhere else, and a write error
\* makes the goroutine return.  A write on a connection the server has closed
\* fails.
StreamTick(k) ==
    /\ opc[k] = "running"
    /\ \/ /\ pageOp' = [k |-> k, op |-> "screenshot", ok |-> FALSE]
          /\ UNCHANGED <<opc, ierr>>
       \/ /\ bctxOpen[k]
          /\ pageOp' = [k |-> k, op |-> "screenshot", ok |-> TRUE]
          /\ \/ connOpen[k] /\ UNCHANGED <<opc, ierr>>
             \/ /\ opc' = [opc EXCEPT ![k] = "stopped"]
                /\ ierr' = FirstError(k, "write")
    /\ UNCHANGED <<ipc, connOpen, bctxOpen, ictxDone, iret, saved, lastMsg, outsideInt>>

\* Stream goroutine, case <-ctx.Done(): return.
StreamCtxDone(k) ==
    /\ opc[k] = "running"
    /\ ictxDone[k]
    /\ opc' = [opc EXCEPT ![k] = "stopped"]
    /\ UNCHANGED <<ipc, connOpen, bctxOpen, ictxDone, ierr, iret, saved, pageOp, lastMsg, outsideInt>>

\* The request context c.Request().Context() is cancelled once WsInteractive
\* has returned.
RequestContextDone(k) ==
    /\ ipc[k] = "returned"
    /\ ~ictxDone[k]
    /\ ictxDone' = [ictxDone EXCEPT ![k] = TRUE]
    /\ UNCHANGED <<ipc, opc, connOpen, bctxOpen, ierr, iret, saved, pageOp, lastMsg, outsideInt>>

\* Command loop: conn.ReadMessage fails - a transport error, or the close
\* frame of the peer - and HandleInteractive returns the error.
CommandReadError(k) ==
    /\ ipc[k] = "reading"
    /\ \E e \in {"read", "peerclose"} : InteractiveReturns(k, e)
    /\ ierr' = FirstError(k, "read")
    /\ UNCHANGED <<opc, ictxDone, saved, pageOp, lastMsg, outsideInt>>

\* A command loop that goes on reading after a save.
CommandMessageSaveStays(k, ev) ==
    /\ ipc[k] = "reading"
    /\ IF ev = "save"
         THEN /\ \E res \in {"written", "failed"} : saved' = [saved EXCEPT ![k] = res]
              /\ UNCHANGED <<ipc, iret, bctxOpen, connOpen, pageOp>>
         ELSE /\ \E ok \in BOOLEAN :
                   pageOp' = IF ev \in PageCommands
                               THEN [k |-> k, op |-> ev, ok |-> ok] ELSE pageOp
              /\ UNCHANGED <<ipc, iret, bctxOpen, connOpen, saved>>
    /\ lastMsg' = [k |-> k, ev |-> ev]
    /\ UNCHANGED <<opc, ictxDone, ierr, outsideInt>>

\* A command loop that gives up on a message it cannot parse.
CommandMessageStrict(k, ev) ==
    /\ ipc[k] = "reading"
    /\ IF ev = "save"
         THEN /\ \E res \in {"written", "failed"} : saved' = [saved EXCEPT ![k] = res]
              /\ InteractiveReturns(k, "nil")
              /\ pageOp' = pageOp
         ELSE IF ev = "invalid"
           THEN /\ InteractiveReturns(k, "invalid")
                /\ UNCHANGED <<saved, pageOp>>
           ELSE /\ \E ok \in BOOLEAN :
                     pageOp' = IF ev \in PageCommands
                                 THEN [k |-> k, op |-> ev, ok |-> ok] ELSE pageOp
                /\ UNCHANGED <<ipc, iret, bctxOpen, connOpen, saved>>
    /\ lastMsg' = [k |-> k, ev |-> ev]
    /\ UNCHANGED <<opc, ictxDone, ierr, outsideInt>>

\* Command loop: a message is read.  An invalid one is logged and skipped;
\* click, type and key drive the page (a failure is logged and the loop goes
\* on); save calls bCtx.StorageState on the task's state file (a failure is
\* logged) and returns nil; any other type is ignored.
CommandMessage(k, ev) ==
    /\ ipc[k] = "reading"
    /\ IF ev = "save"
         THEN /\ \E res \in {"written", "failed"} : saved' = [saved EXCEPT ![k] = res]
              /\ InteractiveReturns(k, "nil")
              /\ pageOp' = pageOp
         ELSE /\ \E ok \in BOOLEAN :
                   pageOp' = IF ev \in PageCommands
                               THEN [k |-> k, op |-> ev, ok |-> ok] ELSE pageOp
              /\ UNCHANGED <<ipc, iret, bctxOpen, connOpen, saved>>
    /\ lastMsg' = [k |-> k, ev |-> ev]
    /\ UNCHANGED <<opc, ictxDone, ierr, outsideInt>>

\* Step 7 of WsInteractive: HandleInteractive is called with the upgraded
\* connection of request k and the task of its ":id" parameter.
WsHandleInteractive(k) ==
    /\ k \in Reqs
    /\ wpc[k] = "streaming"
    /\ InteractiveSetup(k)

(***************************************************************************)
(* The frame cache of task LoopTask, slice by slice: the capture loop      *)
(* stores the slice that page.Screenshot returned, GetLatestFrame hands    *)
(* out slices, and the callers of GetLatestFrame own what they were given. *)
(***************************************************************************)
MaxBufs == 4
Buffers == 1 .. MaxBufs
\* the JPEG images the page can show
Frames == {"jpegA", "jpegB"}
NoBytes == "nothing"
\* what a caller can write into a slice it holds
Contents == Frames \cup {"scribbled"}
NoCall == [kind |-> "none", buf |-> None]
Absent == [kind |-> "absent", buf |-> None]

InitCache ==
    /\ bufs = [b \in Buffers |-> NoBytes]
    /\ cachedBuf = None
    /\ gotBufs = {}
    /\ lastGot = NoCall
    /\ lastPut = NoBytes

\* what the cache-level actions leave alone
cacheVars == <<bufs, cachedBuf, gotBufs, lastGot, lastPut>>
previewVars == <<ppc, purl, pcss, pbrowser, pcheck, pops, pret>>
qualityVars == <<crfIn, quality>>
originVars == <<ohdr, ohost, oaccept>>
setupVars == <<upc, uopts, ntpReplies, ntpWaits, ntpRet, overlay, warnings, uencoder, uret>>
createVars == <<tpc, tbody, tlimit, tresp, trows>>
workerVars == <<shutdown>>
outsideCache == <<taskUrl, sessions, cancelled, callVars, stopVars, loopVars, intVars,
                  tktVars, previewVars, qualityVars, originVars, setupVars, createVars, workerVars>>

\* The slices that something still refers to; the others are garbage.
LiveBufs == gotBufs \cup (IF cachedBuf = None THEN {} ELSE {cachedBuf})

\* make([]byte, n), and the slice page.Screenshot returns: memory nothing
\* else refers to.
NewBuf == CHOOSE b \in Buffers \ LiveBufs : \A c \in Buffers \ LiveBufs : b <= c

\* recordLoop, lines 334-337: w.latestFrames[taskID] = buf, the slice that the
\* screenshot of this tick returned.
CachePut(f) ==
    /\ Buffers \ LiveBufs # {}
    /\ bufs' = [bufs EXCEPT ![NewBuf] = f]
    /\ cachedBuf' = NewBuf
    /\ lastPut' = f
    /\ latestFrames' = [latestFrames EXCEPT ![LoopTask] = LoopCall]
    /\ UNCHANGED <<gotBufs, lastGot, outsideCache>>

\* The deferred cleanup of the goroutine: delete(w.latestFrames, taskID).
CacheEvict ==
    /\ cachedBuf # None
    /\ cachedBuf' = None
    /\ lastPut' = NoBytes
    /\ latestFrames' = [latestFrames EXCEPT ![LoopTask] = None]
    /\ UNCHANGED <<bufs, gotBufs, lastGot, outsideCache>>

\* A GetLatestFrame that returns the cached slice itself.
GetLatestFrameShared ==
    /\ IF cachedBuf = None
         THEN /\ lastGot' = Absent
              /\ UNCHANGED <<bufs, gotBufs>>
         ELSE /\ gotBufs' = gotBufs \cup {cachedBuf}
              /\ lastGot' = [kind |-> "frame", buf |-> cachedBuf]
              /\ bufs' = bufs
    /\ UNCHANGED <<cachedBuf, lastPut, latestFrames, outsideCache>>

\* GetLatestFrame(taskID), under the read lock: nil when the map has no
\* entry; otherwise a new slice of the same length with the bytes copied in.
GetLatestFrameCopy ==
    /\ IF cachedBuf = None
         THEN /\ lastGot' = Absent
              /\ UNCHANGED <<bufs, gotBufs>>
         ELSE /\ Buffers \ LiveBufs # {}
              /\ bufs' = [bufs EXCEPT ![NewBuf] = bufs[cachedBuf]]
              /\ gotBufs' = gotBufs \cup {NewBuf}
              /\ lastGot' = [kind |-> "frame", buf |-> NewBuf]
    /\ UNCHANGED <<cachedBuf, lastPut, latestFrames, outsideCache>>

\* A caller of GetLatestFrame writes into the slice it was given.
CallerWrites(b, v) ==
    /\ b \in gotBufs
    /\ bufs[b] # v
    /\ bufs' = [bufs EXCEPT ![b] = v]
    /\ UNCHANGED <<cachedBuf, gotBufs, lastGot, lastPut, latestFrames, outsideCache>>

\* A caller is done with its slice (GetRecordingPreview has sent the response).
CallerDrops(b) ==
    /\ b \in gotBufs
    /\ gotBufs' = gotBufs \ {b}
    /\ UNCHANGED <<bufs, cachedBuf, lastGot, lastPut, latestFrames, outsideCache>>

(***************************************************************************)
(* Worker.CapturePreview: validateURL, then the browser                    *)
(***************************************************************************)
Schemes == {"http", "https", "file", "ftp"}
\* The classes of addresses a lookup can return; "public" is every address
\* outside the other four.
IpClasses == {"loopback", "private", "linklocal", "unspecified", "public"}
AllURLs == [parses : BOOLEAN, scheme : Schemes, ips : SUBSET IpClasses]
NoURL == [parses |-> FALSE, scheme |-> "none", ips |-> {}]

InitPreview ==
    /\ ppc = "idle"
    /\ purl = NoURL
    /\ pcss = FALSE
    /\ pbrowser = FALSE
    /\ pcheck = "none"
    /\ pops = {}
    /\ pret = "none"

\* what a CapturePreview call leaves alone
outsidePreview == <<taskUrl, sessions, latestFrames, cancelled, callVars, stopVars,
                    loopVars, intVars, tktVars, cacheVars, qualityVars, originVars,
                    setupVars, createVars, workerVars>>

\* CapturePreview returns the error err (the deferred bCtx.Close runs once the
\* context exists).
PreviewReturns(err) ==
    /\ ppc' = "returned"
    /\ pret' = err
    /\ pops' = IF "NewContext" \in pops THEN pops \cup {"Close"} ELSE pops

\* A CapturePreview that goes on to the browser whatever validateURL said.
CapturePreviewUnchecked(u, css, browser) ==
    /\ ppc = "idle"
    /\ purl' = u
    /\ pcss' = css
    /\ pbrowser' = browser
    /\ pcheck' = IF validateURL(u) THEN "ok" ELSE "error"
    /\ ppc' = "context"
    /\ UNCHANGED <<pops, pret, outsidePreview>>

\* Step 1 of CapturePreview: validateURL(targetURL); on an error the call
\* returns "security check failed".
CapturePreview(u, css, browser) ==
    /\ ppc = "idle"
    /\ purl' = u
    /\ pcss' = css
    /\ pbrowser' = browser
    /\ IF validateURL(u)
         THEN /\ pcheck' = "ok"
              /\ ppc' = "context"
              /\ UNCHANGED <<pops, pret>>
         ELSE /\ pcheck' = "error"
              /\ PreviewReturns("security")
    /\ UNCHANGED outsidePreview

\* Step 3: w.browser.NewContext, a call on a nil interface when the Worker has
\* no browser (the goroutine panics); then bCtx.NewPage.  Each can fail.
PreviewNewContext ==
    /\ ppc = "context"
    /\ IF ~pbrowser
         THEN /\ ppc' = "panic"
              /\ UNCHANGED <<pops, pret>>
         ELSE \/ /\ pops' = pops \cup {"NewContext", "NewPage"}
                 /\ ppc' = "goto"
                 /\ pret' = pret
              \/ PreviewReturns("context")
              \/ /\ ppc' = "returned"
                 /\ pret' = "page"
                 /\ pops' = pops \cup {"NewContext", "Close"}
    /\ UNCHANGED <<purl, pcss, pbrowser, pcheck, outsidePreview>>

\* Step 4: the 30-second deadline may have passed; page.Goto(targetURL).
PreviewGoto ==
    /\ ppc = "goto"
    /\ \/ PreviewReturns("deadline")
       \/ /\ pops' = pops \cup {"Goto"}
          /\ ppc' = "inject"
          /\ pret' = pret
       \/ /\ ppc' = "returned"
          /\ pret' = "nav"
          /\ pops' = pops \cup {"Goto", "Close"}
    /\ UNCHANGED <<purl, pcss, pbrowser, pcheck, outsidePreview>>

\* Steps 5 and 6: the deadline again, page.AddStyleTag when customCSS is not
\* empty, page.Screenshot, and the check for an empty image.
PreviewCapture ==
    /\ ppc = "inject"
    /\ \/ PreviewReturns("deadline")
       \/ /\ pcss
          /\ ppc' = "returned"
          /\ pret' = "css"
          /\ pops' = pops \cup {"AddStyleTag", "Close"}
       \/ /\ ppc' = "returned"
          /\ \E res \in {"screenshot", "empty", "image"} : pret' = res
          /\ pops' = pops \cup (IF pcss THEN {"AddStyleTag"} ELSE {})
                          \cup {"Screenshot", "Close"}
    /\ UNCHANGED <<purl, pcss, pbrowser, pcheck, outsidePreview>>

(***************************************************************************)
(* calculateJpegQuality                                                    *)
(***************************************************************************)
MaxJpegQuality == 95
MinJpegQuality == 30
\* the largest valid CRF
MaxCrf == 51
\* the calls made: crf from CrfMargin below zero to CrfMargin above MaxCrf
CrfMargin == 30
CrfValues == (0 - CrfMargin) .. (MaxCrf + CrfMargin)
NoCrf == 0 - (CrfMargin + 1)

InitQuality ==
    /\ crfIn = NoCrf
    /\ quality = None

\* what a calculateJpegQuality call leaves alone
outsideQuality == <<taskUrl, sessions, latestFrames, cancelled, callVars, stopVars,
                    loopVars, intVars, tktVars, cacheVars, previewVars, originVars,
                    setupVars, createVars, workerVars>>

\* int(x) for a float x >= 0 that is a whole number of halves: the fraction
\* is dropped.
IntOfHalves(h) == h \div 2

\* math.Round of the same x: a half goes up.
RoundOfHalves(h) == (h + 1) \div 2

\* A calculateJpegQuality that rounds the quality to the nearest integer.
calculateJpegQualityRounded(crf) ==
    LET c == IF crf < 0 THEN 0 ELSE IF crf > MaxCrf THEN MaxCrf ELSE crf
        qInt == RoundOfHalves(200 - c)
    IN  IF qInt > MaxJpegQuality THEN MaxJpegQuality
        ELSE IF qInt < MinJpegQuality THEN MinJpegQuality
        ELSE qInt

\* calculateJpegQuality(crf): crf is brought into [0, 51]; quality is
\* 100 - float64(crf)/2.0, which is (200 - crf) halves; qInt := int(quality);
\* qInt is brought into [MinJpegQuality, MaxJpegQuality].
calculateJpegQuality(crf) ==
    LET c == IF crf < 0 THEN 0 ELSE IF crf > MaxCrf THEN MaxCrf ELSE crf
        qInt == IntOfHalves(200 - c)
    IN  IF qInt > MaxJpegQuality THEN MaxJpegQuality
        ELSE IF qInt < MinJpegQuality THEN MinJpegQuality
        ELSE qInt

\* recordLoop, line 253: jpegQuality := calculateJpegQuality(crf).
JpegQualityCall(crf) ==
    /\ crfIn' = crf
    /\ quality' = calculateJpegQuality(crf)
    /\ UNCHANGED outsideQuality

(***************************************************************************)
(* The origin check of the WebSocket upgrade, call by call                 *)
(***************************************************************************)
InitOrigin ==
    /\ ohdr = <<>>
    /\ ohost = <<>>
    /\ oaccept = "none"

\* what a CheckOrigin call leaves alone
outsideOrigin == <<taskUrl, sessions, latestFrames, cancelled, callVars, stopVars,
                   loopVars, intVars, tktVars, cacheVars, previewVars, qualityVars,
                   setupVars, createVars, workerVars>>

\* upgrader.Upgrade calls CheckOrigin(r) and refuses the upgrade (403) when it
\* returns false.
CheckOriginCall(o, h) ==
    /\ ohdr' = o
    /\ ohost' = h
    /\ oaccept' = IF CheckOrigin(o, h) THEN "accept" ELSE "refuse"
    /\ UNCHANGED outsideOrigin

(***************************************************************************)
(* The setup of recordLoop in detail, for the run of call LoopCall: the    *)
(* browser context and the navigation, InjectTimeOverlay with GetNTPTime,  *)
(* the custom CSS, and the start of the encoder.                           *)
(***************************************************************************)
\* the attempts of GetNTPTime
NtpAttempts == 3
\* the clock offsets a time server can report, in milliseconds
NtpOffsets == {0 - 250, 0, 40}
NoReply == [err |-> FALSE, offset |-> 0, returned |-> FALSE]
NoOverlay == [called |-> FALSE, ok |-> FALSE, offset |-> 0]

InitSetup ==
    /\ upc = "start"
    /\ uopts = [timeOverlay |-> FALSE, css |-> FALSE]
    /\ ntpReplies = <<>>
    /\ ntpWaits = <<>>
    /\ ntpRet = NoReply
    /\ overlay = NoOverlay
    /\ warnings = {}
    /\ uencoder = FALSE
    /\ uret = "none"

\* what the setup leaves alone, besides the position and result of the call
outsideSetup == <<taskUrl, sessions, latestFrames, cancelled, ctask, ret, recStatus,
                  stopVars, loopVars, intVars, tktVars, cacheVars, previewVars,
                  qualityVars, originVars, createVars, workerVars>>

\* The setup makes recordLoop return err.
SetupFails(err) ==
    /\ RecordLoopReturns(LoopCall, err)
    /\ upc' = "returned"
    /\ uret' = err

\* browser.NewContext, bCtx.NewPage and page.Goto(url): each failure makes
\* recordLoop return, the navigation's as "nav failed".
SetupNavigate(timeOverlay, css) ==
    /\ pc[LoopCall] = "launched"
    /\ upc = "start"
    /\ uopts' = [timeOverlay |-> timeOverlay, css |-> css]
    /\ \/ \E err \in {"context", "page", "nav"} : SetupFails(err)
       \/ /\ upc' = IF timeOverlay THEN "ntp" ELSE "css"
          /\ UNCHANGED <<pc, loopErr, uret>>
    /\ UNCHANGED <<ntpReplies, ntpWaits, ntpRet, overlay, warnings, uencoder, outsideSetup>>

\* GetNTPTime, one pass of its loop: ntp.Query; on success the offset of the
\* response is returned; on failure time.Sleep((i+1) * 500 ms), and after the
\* last attempt the error is returned.
NtpQuery ==
    /\ upc = "ntp"
    /\ Len(ntpReplies) < NtpAttempts
    /\ \/ \E off \in NtpOffsets :
            /\ ntpReplies' = Append(ntpReplies, [ok |-> TRUE, offset |-> off])
            /\ ntpRet' = [err |-> FALSE, offset |-> off, returned |-> TRUE]
            /\ upc' = "inject"
            /\ ntpWaits' = ntpWaits
       \/ /\ ntpReplies' = Append(ntpReplies, [ok |-> FALSE, offset |-> 0])
          /\ ntpWaits' = Append(ntpWaits, Len(ntpReplies) + 1)
          /\ IF Len(ntpReplies) + 1 = NtpAttempts
               THEN /\ ntpRet' = [err |-> TRUE, offset |-> 0, returned |-> TRUE]
                    /\ upc' = "inject"
               ELSE UNCHANGED <<ntpRet, upc>>
    /\ UNCHANGED <<pc, loopErr, uopts, overlay, warnings, uencoder, uret, outsideSetup>>

\* An InjectTimeOverlay that gives up when the time server cannot be reached.
OverlayInjectStrict ==
    /\ upc = "inject"
    /\ IF ntpRet.err
         THEN /\ warnings' = warnings \cup {"overlay"}
              /\ overlay' = overlay
         ELSE \E ok \in BOOLEAN :
                /\ overlay' = [called |-> TRUE, ok |-> ok, offset |-> ntpRet.offset]
                /\ warnings' = IF ok THEN warnings ELSE warnings \cup {"overlay"}
    /\ upc' = "css"
    /\ UNCHANGED <<pc, loopErr, uopts, ntpReplies, ntpWaits, ntpRet, uencoder, uret,
                   outsideSetup>>

\* InjectTimeOverlay after GetNTPTime: on an error the offset is 0; the script
\* is built and page.AddInitScript is called; its failure is returned to
\* recordLoop, which logs it and goes on.
OverlayInject ==
    /\ upc = "inject"
    /\ \E ok \in BOOLEAN :
         /\ overlay' = [called |-> TRUE, ok |-> ok,
                        offset |-> IF ntpRet.err THEN 0 ELSE ntpRet.offset]
         /\ warnings' = IF ok THEN warnings ELSE warnings \cup {"overlay"}
    /\ upc' = "css"
    /\ UNCHANGED <<pc, loopErr, uopts, ntpReplies, ntpWaits, ntpRet, uencoder, uret,
                   outsideSetup>>

\* A custom-CSS step whose failure makes recordLoop return.
SetupCssFatal ==
    /\ upc = "css"
    /\ \/ /\ upc' = "encoder"
          /\ UNCHANGED <<pc, loopErr, uret>>
       \/ /\ uopts.css
          /\ SetupFails("css")
    /\ UNCHANGED <<uopts, ntpReplies, ntpWaits, ntpRet, overlay, warnings, uencoder,
                   outsideSetup>>

\* page.AddStyleTag when customCSS is not empty: a failure is logged and
\* recording goes on.
SetupCss ==
    /\ upc = "css"
    /\ \/ warnings' = warnings
       \/ /\ uopts.css
          /\ warnings' = warnings \cup {"css"}
    /\ upc' = "encoder"
    /\ UNCHANGED <<pc, loopErr, uopts, ntpReplies, ntpWaits, ntpRet, overlay, uencoder,
                   uret, outsideSetup>>

\* calculateJpegQuality, ffmpegCmd.StdinPipe and ffmpegCmd.Start: a failure
\* makes recordLoop return; otherwise the capture loop begins.
SetupEncoder ==
    /\ upc = "encoder"
    /\ \/ /\ SetupFails("ffmpeg")
          /\ uencoder' = uencoder
       \/ /\ uencoder' = TRUE
          /\ upc' = "capturing"
          /\ pc' = [pc EXCEPT ![LoopCall] = "loop"]
          /\ UNCHANGED <<loopErr, uret>>
    /\ UNCHANGED <<uopts, ntpReplies, ntpWaits, ntpRet, overlay, warnings, outsideSetup>>

(***************************************************************************)
(* Handler.CreateTask: one request.  The body is what the client sent; the  *)
(* handler sees of it what c.Bind decodes into CreateTaskRequest.           *)
(***************************************************************************)
\* target_url: what url.ParseRequestURI makes of it
TargetUrlInputs == {"http://example.com", "not a url"}
\* filename_template: empty, plain, with a separator, the parent directory
FilenameInputs == {"", "rec_01.mp4", "a/b", ".."}
\* fps and crf are pointers: absent from the body, or a number
NoNumber == [set |-> FALSE, v |-> 0]
FpsInputs == {NoNumber} \cup {[set |-> TRUE, v |-> n] : n \in {0, 1, 15, 16}}
CrfInputs == {NoNumber} \cup {[set |-> TRUE, v |-> n] : n \in {0 - 1, 0, 51, 52}}
\* the positions the tasks table accepts for time_overlay_config
OverlayPositions == {"top-left", "top-right", "bottom-left", "bottom-right"}
\* time_overlay_config: absent from the body, a position, something else
OverlayInputs == {"", "top-left", "bottom-right", "invalid-position"}
FpsLimits == {10, 60}
Bodies ==
    [json : BOOLEAN, target_url : TargetUrlInputs, filename_template : FilenameInputs,
     fps : FpsInputs, crf : CrfInputs, time_overlay_config : OverlayInputs]
NoBody ==
    [json |-> FALSE, target_url |-> "not a url", filename_template |-> "",
     fps |-> NoNumber, crf |-> NoNumber, time_overlay_config |-> ""]
NoResponse == [status |-> 0, error |-> ""]

InitCreate ==
    /\ tpc = "idle"
    /\ tbody = NoBody
    /\ tlimit = 0
    /\ tresp = NoResponse
    /\ trows = {}

\* what a CreateTask request leaves alone
outsideCreate == <<taskUrl, sessions, latestFrames, cancelled, callVars, stopVars,
                   loopVars, intVars, tktVars, cacheVars, previewVars, qualityVars,
                   originVars, setupVars, workerVars>>

\* c.Bind(&req): the fields of CreateTaskRequest are decoded; a field of the
\* body that the struct does not declare is dropped.
Bind(body) ==
    [target_url |-> body.target_url, filename_template |-> body.filename_template,
     fps |-> body.fps, crf |-> body.crf]

\* url.ParseRequestURI(u) returns no error
ParseRequestURI(u) == u = "http://example.com"
\* regexp ^[a-zA-Z0-9_.-]+$ on the filename template
FilenameMatches(f) == f \in {"rec_01.mp4", ".."}
\* strings.Contains(f, ".."), "/" or "\\"
FilenameTraverses(f) == f \in {"a/b", ".."}

\* The input validation of CreateTask, in its order: the error of the first
\* check that fails, or "" when all pass.
CreateTaskError(req, limit) ==
    IF ~ParseRequestURI(req.target_url) THEN "invalid target_url"
    ELSE IF req.filename_template # "" /\ ~FilenameMatches(req.filename_template)
      THEN "filename_template contains invalid characters"
    ELSE IF req.filename_template # "" /\ FilenameTraverses(req.filename_template)
      THEN "filename_template cannot contain path traversal or separators"
    ELSE IF req.fps.set /\ req.fps.v < 1 THEN "fps must be >= 1"
    ELSE IF req.fps.set /\ req.fps.v > 15 THEN "fps cannot exceed 15"
    ELSE IF req.fps.set /\ req.fps.v > limit THEN "fps cannot exceed server limit"
    ELSE IF req.crf.set /\ (req.crf.v < 0 \/ req.crf.v > 51)
      THEN "crf must be between 0 and 51"
    ELSE ""

\* CreateTask up to the store: a body that does not bind and a request that
\* fails a check are answered 400; otherwise the handler goes on to
\* h.Queries.CreateTask.
CreateTaskValidate(body, limit) ==
    /\ tpc = "idle"
    /\ tbody' = body
    /\ tlimit' = limit
    /\ IF ~body.json
         THEN /\ tresp' = [status |-> 400, error |-> "bind"]
              /\ tpc' = "returned"
         ELSE IF CreateTaskError(Bind(body), limit) # ""
           THEN /\ tresp' = [status |-> 400, error |-> CreateTaskError(Bind(body), limit)]
                /\ tpc' = "returned"
           ELSE /\ tresp' = tresp
                /\ tpc' = "insert"
    /\ UNCHANGED <<trows, outsideCreate>>

\* The row of CreateTaskParams: fps 5 and crf 23 when absent; the INSERT names
\* no time_overlay_config, so the column takes its default.
CreateTaskRow(req) ==
    [target_url |-> req.target_url, filename_template |-> req.filename_template,
     fps |-> IF req.fps.set THEN req.fps.v ELSE 5,
     crf |-> IF req.crf.set THEN req.crf.v ELSE 23,
     time_overlay_config |-> "bottom-right"]

\* h.Queries.CreateTask: the row is inserted and the task answered with 201,
\* or the store fails and the answer is 500.
CreateTaskInsert ==
    /\ tpc = "insert"
    /\ tpc' = "returned"
    /\ \/ /\ trows' = trows \cup {CreateTaskRow(Bind(tbody))}
          /\ tresp' = [status |-> 201, error |-> ""]
       \/ /\ trows' = trows
          /\ tresp' = [status |-> 500, error |-> "store"]
    /\ UNCHANGED <<tbody, tlimit, outsideCreate>>

(***************************************************************************)
(* Worker.Stop, deferred by main: it runs when StartServer has returned,   *)
(* that is after httpServer.Shutdown has waited for the handlers in flight *)
(* and once no request is served any more.  The goroutines of the          *)
(* recordings go on until the process exits.                               *)
(***************************************************************************)
InitWorker == shutdown = FALSE

\* The server accepts requests.
Serving == ~shutdown

\* The tracked cancel functions.
Tracked == {sessions[t] : t \in Tasks} \ {None}

\* Worker.Stop: under the lock every tracked cancel function is called and its
\* entry deleted; the frame cache is left alone.  Then the browser is closed.
WorkerStop ==
    /\ Serving
    /\ \A c \in Calls : pc[c] \notin {"preflight", "register"}
    /\ \A s \in Stops : spc[s] # "looked"
    /\ cancelled' = cancelled \cup Tracked
    /\ sessions' = [t \in Tasks |-> None]
    /\ shutdown' = TRUE
    /\ UNCHANGED <<taskUrl, latestFrames, callVars, stopVars, loopVars, intVars, tktVars,
                   cacheVars, previewVars, qualityVars, originVars, setupVars, createVars>>

Init ==
    /\ InitRec /\ InitTkt /\ InitLoop /\ InitInt /\ InitCache /\ InitPreview
    /\ InitQuality /\ InitOrigin /\ InitSetup /\ InitCreate
    /\ InitWorker

(***************************************************************************)
(* SpecTkt: the ticket store under Generate with any ttl, Exchange calls,  *)
(* the sweep and the clock.  The store never reads a ticket's TaskID: all  *)
(* tickets and requests are for task 1, and a request stops after its      *)
(* Exchange.                                                               *)
(***************************************************************************)
NextTkt ==
    \/ ClockTick
    \/ \E ttl \in TTLs : Generate("admin", 1, ttl)
    \/ cleanup
    \/ \E r \in Reqs, id \in TicketIds \cup {None, BogusId} : WsExchange(r, id, 1)

SpecTkt == Init /\ [][NextTkt]_vars

(***************************************************************************)
(* FairSpecTkt: StartCleanupLoop is started by api.New with a one-minute   *)
(* ticker and a context that is never cancelled, so a sweep that has       *)
(* something to remove eventually runs.                                    *)
(***************************************************************************)
FairSpecTkt == SpecTkt /\ WF_vars(cleanup)

(***************************************************************************)
(* SpecWs: GenerateTicket and WsInteractive requests, the sweep, the clock *)
(***************************************************************************)
NextWs ==
    \/ ClockTick
    \/ \E t \in Tasks : GenerateTicket(t)
    \/ cleanup
    \/ \E r \in Reqs, id \in TicketIds \cup {None, BogusId}, t \in Tasks \cup {BadTaskParam} :
         WsExchange(r, id, t)
    \/ \E r \in Reqs : WsAuthorize(r)
    \/ \E r \in Reqs : WsUpgrade(r)

SpecWs == Init /\ [][NextWs]_vars

(***************************************************************************)
(* SpecLoop: one run of recordLoop from the encoder's start, with the      *)
(* clock, the cancellation of its context and the encoder process          *)
(***************************************************************************)
NextLoop ==
    \/ \E f \in FpsValues : LoopEncoderStart(f)
    \/ TimePasses
    \/ ContextCancelled
    \/ EncoderStopsReading
    \/ EncoderExits
    \/ WaitReturns
    \/ TickerBranch
    \/ CtxDoneBranch
    \/ FfmpegDoneBranch
    \/ GraceTimeoutBranch

SpecLoop == Init /\ [][NextLoop]_vars

(***************************************************************************)
(* SpecInt: interactive sessions.  FairSpecInt: the server's own steps are *)
(* scheduled - the setup calls return, the stream goroutine's select takes *)
(* a ready case, the request context is cancelled when the handler has     *)
(* returned; nothing is assumed about what the peer sends or when a read   *)
(* or a write fails.                                                       *)
(***************************************************************************)
NextInt ==
    \/ \E k \in Interactive : InteractiveSetup(k)
    \/ \E k \in Interactive : StreamTick(k)
    \/ \E k \in Interactive : StreamCtxDone(k)
    \/ \E k \in Interactive : RequestContextDone(k)
    \/ \E k \in Interactive : CommandReadError(k)
    \/ \E k \in Interactive, ev \in Events : CommandMessage(k, ev)

SpecInt == Init /\ [][NextInt]_vars

FairSpecInt ==
    /\ SpecInt
    /\ \A k \in Interactive :
         /\ WF_vars(InteractiveSetup(k))
         /\ WF_vars(StreamCtxDone(k))
         /\ WF_vars(RequestContextDone(k))

(***************************************************************************)
(* SpecSession: the interactive connection from the request to its end -   *)
(* GenerateTicket, the WsInteractive handshake of each request, and the    *)
(* session that HandleInteractive runs on the upgraded connection.         *)
(***************************************************************************)
NextSession ==
    \/ \E t \in Tasks : GenerateTicket(t)
    \/ \E r \in Reqs, id \in TicketIds \cup {None, BogusId} :
         WsExchange(r, id, InteractiveTask(r))
    \/ \E r \in Reqs : WsAuthorize(r)
    \/ \E r \in Reqs : WsUpgrade(r)
    \/ \E k \in Interactive : WsHandleInteractive(k)
    \/ \E k \in Interactive : StreamTick(k)
    \/ \E k \in Interactive : StreamCtxDone(k)
    \/ \E k \in Interactive : RequestContextDone(k)
    \/ \E k \in Interactive : CommandReadError(k)
    \/ \E k \in Interactive, ev \in Events : CommandMessage(k, ev)

SpecSession == Init /\ [][NextSession]_vars

(***************************************************************************)
(* SpecCache: the frame cache of one task under stores by the capture      *)
(* loop, the eviction, GetLatestFrame calls and callers that write into    *)
(* what they were given                                                    *)
(***************************************************************************)
NextCache ==
    \/ \E f \in Frames : CachePut(f)
    \/ CacheEvict
    \/ GetLatestFrameCopy
    \/ \E b \in Buffers, v \in Contents : CallerWrites(b, v)
    \/ \E b \in Buffers : CallerDrops(b)

SpecCache == Init /\ [][NextCache]_vars

(***************************************************************************)
(* SpecPreview: one CapturePreview call on any target URL, with or without *)
(* custom CSS, on a Worker with or without a browser                       *)
(***************************************************************************)
NextPreview ==
    \/ \E u \in AllURLs, css \in BOOLEAN, browser \in BOOLEAN : CapturePreview(u, css, browser)
    \/ PreviewNewContext
    \/ PreviewGoto
    \/ PreviewCapture

SpecPreview == Init /\ [][NextPreview]_vars

(***************************************************************************)
(* SpecQuality: calculateJpegQuality called on every crf of CrfValues      *)
(***************************************************************************)
NextQuality == \E crf \in CrfValues : JpegQualityCall(crf)

SpecQuality == Init /\ [][NextQuality]_vars

(***************************************************************************)
(* SpecOrigin: CheckOrigin called on every Origin header and request Host  *)
(***************************************************************************)
NextOrigin == \E o \in OriginHeaders, h \in RequestHosts : CheckOriginCall(o, h)

SpecOrigin == Init /\ [][NextOrigin]_vars

(***************************************************************************)
(* SpecSetup: one recording from StartTask to the end of its goroutine,    *)
(* with the setup of recordLoop in detail                                  *)
(***************************************************************************)
NextSetup ==
    \/ StartRecordingCheck(LoopCall, LoopTask)
    \/ StartRecordingPreflight(LoopCall)
    \/ StartRecordingRegister(LoopCall)
    \/ \E timeOverlay \in BOOLEAN, css \in BOOLEAN : SetupNavigate(timeOverlay, css)
    \/ NtpQuery
    \/ OverlayInject
    \/ SetupCss
    \/ SetupEncoder
    \/ LoopTick(LoopCall)
    \/ GoroutineStatus(LoopCall)
    \/ TeardownSession(LoopCall)
    \/ TeardownFrames(LoopCall)

SpecSetup == Init /\ [][NextSetup]_vars

(***************************************************************************)
(* SpecCreate: one CreateTask request with any body, under either limit    *)
(***************************************************************************)
NextCreate ==
    \/ \E body \in Bodies, limit \in FpsLimits : CreateTaskValidate(body, limit)
    \/ CreateTaskInsert

SpecCreate == Init /\ [][NextCreate]_vars

(***************************************************************************)
(* SpecWorker: the Worker from the first request to the shutdown of the    *)
(* process - concurrent StartTask and StopTask calls while the server      *)
(* serves, then Worker.Stop                                                *)
(***************************************************************************)
NextWorker ==
    \/ Serving /\ \E c \in Calls, t \in Tasks : StartRecordingCheck(c, t)
    \/ \E c \in Calls : StartRecordingPreflight(c)
    \/ \E c \in Calls : StartRecordingRegister(c)
    \/ \E c \in Calls : LoopNavigate(c)
    \/ \E c \in Calls : LoopStartFfmpeg(c)
    \/ \E c \in Calls : LoopTick(c)
    \/ \E c \in Calls : LoopCancel(c)
    \/ \E c \in Calls : LoopEncoderExit(c)
    \/ \E c \in Calls : LoopGraceTimeout(c)
    \/ \E c \in Calls : GoroutineStatus(c)
    \/ \E c \in Calls : TeardownSession(c)
    \/ \E c \in Calls : TeardownFrames(c)
    \/ Serving /\ \E s \in Stops, t \in Tasks : StopTaskDbError(s, t)
    \/ Serving /\ \E s \in Stops, t \in Tasks : StopRecordingLookup(s, t)
    \/ \E s \in Stops : StopRecordingFinish(s)
    \/ WorkerStop

SpecWorker == Init /\ [][NextWorker]_vars

(***************************************************************************)
(* SpecRec: concurrent StartTask and StopTask calls on the Worker          *)
(***************************************************************************)
NextRec ==
    \/ \E c \in Calls, t \in Tasks : StartRecordingCheck(c, t)
    \/ \E c \in Calls : StartRecordingPreflight(c)
    \/ \E c \in Calls : StartRecordingRegister(c)
    \/ \E c \in Calls : LoopNavigate(c)
    \/ \E c \in Calls : LoopStartFfmpeg(c)
    \/ \E c \in Calls : LoopTick(c)
    \/ \E c \in Calls : LoopCancel(c)
    \/ \E c \in Calls : LoopEncoderExit(c)
    \/ \E c \in Calls : LoopGraceTimeout(c)
    \/ \E c \in Calls : GoroutineStatus(c)
    \/ \E c \in Calls : TeardownSession(c)
    \/ \E c \in Calls : TeardownFrames(c)
    \/ \E s \in Stops, t \in Tasks : StopTaskDbError(s, t)
    \/ \E s \in Stops, t \in Tasks : StopRecordingLookup(s, t)
    \/ \E s \in Stops : StopRecordingFinish(s)

SpecRec == Init /\ [][NextRec]_vars


(***************************************************************************)
(* FairSpecRec: every goroutine launched by StartRecording is scheduled.   *)
(* Each blocking call of recordLoop returns, a select whose ctx.Done case  *)
(* is ready eventually takes it, and the grace timer fires; nothing is     *)
(* assumed about the encoder exiting, about ticks, or about the callers.   *)
(***************************************************************************)
FairSpecRec ==
    /\ SpecRec
    /\ \A c \in Calls :
         /\ WF_vars(LoopNavigate(c))
         /\ WF_vars(LoopStartFfmpeg(c))
         /\ WF_vars(LoopCancel(c))
         /\ WF_vars(LoopGraceTimeout(c))
         /\ WF_vars(GoroutineStatus(c))
         /\ WF_vars(TeardownSession(c))
         /\ WF_vars(TeardownFrames(c))

(***************************************************************************)
(* Claims on the Session Manager                                           *)
(***************************************************************************)
\* The other calls of StartRecording for the task of call c.
Others(c) == {d \in Calls : d # c /\ ctask[d] = ctask[c]}

\* C1: of the StartRecording calls that run concurrently for one task, at most
\* one succeeds, so that no two capture goroutines of a task are ever both
\* running (launched and not yet in their deferred cleanup).
C1_AtMostOneLoopPerTask ==
    \A c \in Calls : \A d \in Others(c) :
        ~(pc[c] \in BeforeTeardown /\ pc[d] \in BeforeTeardown)

\* C3: whatever ends the capture loop, the goroutine runs its deferred cleanup:
\* it leaves recordLoop only into the status update and the cleanup, the
\* cleanup's first step leaves no session entry for the task and its second
\* step no cached frame; and once a goroutine is done and no other
\* StartRecording or goroutine for the task is under way, the task has no
\* session entry (StopRecording returns not-found) and GetLatestFrame returns
\* absent.
C3_Steps ==
    \A c \in Calls :
        /\ pc[c] \in BeforeTeardown /\ pc'[c] \notin BeforeTeardown => pc'[c] = "teardown1"
        /\ pc[c] = "teardown1" /\ pc'[c] # "teardown1" =>
              pc'[c] = "teardown2" /\ sessions'[ctask[c]] = None
        /\ pc[c] = "teardown2" /\ pc'[c] # "teardown2" =>
              pc'[c] = "done" /\ GetLatestFrame(ctask[c])' = None
        /\ pc[c] # "done" /\ pc'[c] = "done" => pc[c] = "teardown2"

C3_Quiet ==
    \A c \in Calls :
        pc[c] = "done" /\ (\A d \in Others(c) : pc[d] \notin InFlight) =>
            sessions[ctask[c]] = None /\ GetLatestFrame(ctask[c]) = None

C3_TeardownRemovesBoth == [][C3_Steps]_vars /\ []C3_Quiet

\* a loop that was cancelled and one that failed are both torn down, the task idle
C3_Witness ==
    \E c \in Calls :
        /\ pc[c] = "done" /\ c \in cancelled /\ recStatus[c] = "COMPLETED"
        /\ \A d \in Others(c) : pc[d] = "done" /\ recStatus[d] = "FAILED"
        /\ Others(c) # {}

\* C4: recordLoop navigates to a target URL only if validateURL passes on it:
\* no goroutine has performed page.Goto (it succeeded, or failed with the
\* navigation error) on a URL that validateURL rejects.
C4_NavigationValidated ==
    \A c \in Calls :
        pc[c] \in {"ffmpeg", "loop", "waiting"} \/ loopErr[c] = "nav" =>
            validateURL(taskUrl[ctask[c]])

\* C6: a StartRecording whose check finds a session tracked for the task
\* returns the conflict error and changes neither the sessions map, nor the
\* frame cache, nor any context; it never launches a goroutine.
C6_Step ==
    \A c \in Calls :
        pc[c] = "idle" /\ pc'[c] # "idle" /\ sessions[ctask'[c]] # None =>
            /\ ret'[c] = "conflict"
            /\ pc'[c] = "returned"
            /\ UNCHANGED <<sessions, latestFrames, cancelled>>

C6_Returned == \A c \in Calls : ret[c] = "conflict" => pc[c] = "returned"

C6_ConflictChangesNothing == [][C6_Step]_vars /\ []C6_Returned

\* the second Start of a task whose first Start succeeded and whose loop runs
C6_Witness ==
    \E c \in Calls : \E d \in Others(c) :
        ret[c] = "conflict" /\ ret[d] = "ok" /\ pc[d] = "loop" /\ sessions[ctask[c]] = d

\* C7: a StopRecording that finds no session for the task returns the
\* not-found error (a found session gives nil), neither its lookup nor its
\* return changes the sessions map or the frame cache, and StopTask still
\* answers 200 "stopped".
C7_Step ==
    \A s \in Stops :
        /\ spc[s] = "idle" /\ spc'[s] = "looked" => UNCHANGED <<sessions, latestFrames, cancelled>>
        /\ spc[s] = "looked" /\ spc'[s] # "looked" =>
              /\ sresp'[s] = 200
              /\ UNCHANGED <<sessions, latestFrames>>
              /\ IF sfound[s] = None
                   THEN sret'[s] = "notfound" /\ cancelled' = cancelled
                   ELSE sret'[s] = "ok"

C7_StopNotFound == [][C7_Step]_vars

\* a Stop on a task whose recording has already been torn down
C7_Witness ==
    \E s \in Stops : \E c \in Calls :
        sret[s] = "notfound" /\ sresp[s] = 200 /\ ctask[c] = stask[s] /\ pc[c] = "done"

\* C8: a StartRecording whose pre-flight check fails returns that error, the
\* failing step leaves the sessions map alone, the call never registers a
\* session nor launches a goroutine; a session is registered only by a call
\* that has passed its pre-flight check.
C8_Step ==
    \A c \in Calls :
        pc[c] = "preflight" /\ pc'[c] = "returned" =>
            ret'[c] \in {"mkdir", "perm"} /\ sessions' = sessions

C8_NoPhantom ==
    \A c \in Calls :
        /\ ret[c] \in {"mkdir", "perm"} =>
              pc[c] = "returned" /\ (\A t \in Tasks : sessions[t] # c)
        /\ (\E t \in Tasks : sessions[t] = c) =>
              pc[c] \notin {"idle", "preflight", "register", "returned"} /\ ret[c] = "ok"

C8_PreflightFailure == [][C8_Step]_vars /\ []C8_NoPhantom

\* a failed pre-flight check on a task nobody else is recording
C8_Witness ==
    \E c \in Calls :
        ret[c] \in {"mkdir", "perm"} /\ Others(c) = {} /\ sessions[ctask[c]] = None

\* C9: once StopRecording has cancelled the context of a capture goroutine,
\* the goroutine eventually finishes its teardown, whatever phase it was in:
\* from then on the sessions map tracks no session of that goroutine and the
\* frame cache holds no frame of it (with C3: none at all once no other call
\* for the task is under way).
C9_TornDown(c) ==
    /\ pc[c] = "done"
    /\ sessions[ctask[c]] # c
    /\ GetLatestFrame(ctask[c]) # c

ExchangedBefore(r, id) == \E q \in Reqs \ {r} : wex[q] # "none" /\ wticket[q] = id

\* C2: for a ticket generated with ttl > 0, the first Exchange on its id, if it
\* runs no later than the expiry, returns the ticket as generated, whatever the
\* sweep has done; every Exchange on the id after another one fails with
\* not-found; and no id is returned by two Exchange calls.
C2_Step ==
    \A r \in Reqs :
        wex[r] = "none" /\ wex'[r] # "none" =>
            LET id == wticket'[r] IN
            id \in IssuedIds /\ issued[id].ttl > 0 =>
                /\ ExchangedBefore(r, id) => wex'[r] = "notfound"
                /\ ~ExchangedBefore(r, id) /\ now <= issued[id].ticket.expiresAt =>
                      wex'[r] = "ok" /\ wheld'[r] = issued[id].ticket

C2_Once ==
    \A r \in Reqs : \A q \in Reqs \ {r} :
        ~(wex[r] = "ok" /\ wex[q] = "ok" /\ wticket[r] = wticket[q])

C2_ExchangeOnce == [][C2_Step]_vars /\ []C2_Once

\* two requests raced for a ticket with ttl > 0: one got it, the other not-found
C2_Witness ==
    \E r \in Reqs : \E q \in Reqs \ {r} :
        /\ wex[r] = "ok" /\ wex[q] = "notfound" /\ wticket[r] = wticket[q]
        /\ wticket[r] \in IssuedIds /\ issued[wticket[r]].ttl > 0

\* C10: once an Exchange on an id has returned - the ticket, expired or
\* not-found - the store holds no record under the id.
C10_ExchangeBurns ==
    \A r \in Reqs :
        wex[r] # "none" /\ wticket[r] \in TicketIds => ~tickets[wticket[r]].present

\* an Exchange that failed with expired, and no sweep since
C10_Witness ==
    \E r \in Reqs :
        /\ wex[r] = "expired" /\ ~tickets[wticket[r]].present
        /\ \A q \in Reqs \ {r} : wpc[q] = "idle"

\* C5: a request is upgraded (HandleInteractive runs) only if it carried a
\* ticket id, its Exchange returned the ticket that Generate issued under
\* that id - found in the store and not past its expiry at that moment, and
\* returned to no other request - and the ticket's task is the requested
\* task; a request without ticket, with a failed Exchange or with another
\* task's ticket is refused and never upgraded.
C5_Step ==
    \A r \in Reqs :
        wex[r] = "none" /\ wex'[r] = "ok" =>
            /\ wticket'[r] \in TicketIds
            /\ tickets[wticket'[r]].present
            /\ now <= tickets[wticket'[r]].expiresAt

C5_Upgraded ==
    \A r \in Reqs :
        wpc[r] = "streaming" =>
            /\ wticket[r] \in IssuedIds
            /\ wex[r] = "ok"
            /\ wheld[r] = issued[wticket[r]].ticket
            /\ wheld[r].task = wtask[r]
            /\ \A q \in Reqs \ {r} : ~(wex[q] = "ok" /\ wticket[q] = wticket[r])

C5_Refused ==
    \A r \in Reqs :
        /\ wpc[r] # "idle" /\ wticket[r] = None => wpc[r] = "refused" /\ wresp[r] = 401
        /\ wex[r] \in {"notfound", "expired"} => wpc[r] = "refused" /\ wresp[r] = 401
        /\ wpc[r] \notin {"idle", "exchanged"} /\ wex[r] = "ok" /\ wheld[r].task # wtask[r] =>
              wpc[r] = "refused" /\ wresp[r] \in {400, 403}

C5_TicketGate == [][C5_Step]_vars /\ [](C5_Upgraded /\ C5_Refused)

\* one request is streaming, and the replay of its ticket was refused
C5_Witness ==
    \E r \in Reqs : \E q \in Reqs \ {r} :
        /\ wpc[r] = "streaming" /\ wresp[r] = 101
        /\ wpc[q] = "refused" /\ wticket[q] = wticket[r]

\* The request r makes its Exchange in this step, on the id of an issued ticket
\* that no request has exchanged yet.
FirstExchange(r, id) ==
    /\ wex[r] = "none" /\ wex'[r] # "none"
    /\ id = wticket'[r] /\ id \in IssuedIds
    /\ ~ExchangedBefore(r, id)

\* C11: for a ticket generated with ttl <= 0, the first Exchange on its id
\* fails with expired at whatever time it runs, the instant of Generate
\* included, and an Exchange after another one fails with not-found.
C11_Step ==
    \A r \in Reqs : \A id \in TicketIds :
        wex[r] = "none" /\ wex'[r] # "none" /\ id = wticket'[r] /\ id \in IssuedIds
          /\ issued[id].ttl <= 0 =>
            IF ExchangedBefore(r, id) THEN wex'[r] = "notfound" ELSE wex'[r] = "expired"

C11_NonPositiveTtlExpired == [][C11_Step]_vars

\* C12: the first Exchange on the id of a never-exchanged ticket, made after
\* the expiry has elapsed, fails with expired, whatever the sweep has done.
C12_Step ==
    \A r \in Reqs : \A id \in TicketIds :
        FirstExchange(r, id) /\ now > issued[id].ticket.expiresAt => wex'[r] = "expired"

C12_LateExchangeExpired == [][C12_Step]_vars

\* C12, amended: the first Exchange on the id of a never-exchanged ticket,
\* made after the expiry has elapsed, never returns the ticket: it fails with
\* expired if the record is still in the store and with not-found if the
\* sweep has removed it; either way no record is left.
C12_AmendedStep ==
    \A r \in Reqs : \A id \in TicketIds :
        FirstExchange(r, id) /\ now > issued[id].ticket.expiresAt =>
            /\ wex'[r] = (IF tickets[id].present THEN "expired" ELSE "notfound")
            /\ wheld'[r] = NoTicket
            /\ ~tickets'[id].present

C12_LateExchangeFails == [][C12_AmendedStep]_vars

\* a late first Exchange that met the record, with no sweep in between
C12_Witness ==
    \E r \in Reqs :
        /\ wex[r] = "expired" /\ issued[wticket[r]].ttl > 0
        /\ \A q \in Reqs \ {r} : wex[q] = "none"

\* C13: a run of the sweep removes exactly the stored tickets whose expiry is
\* before its clock reading and leaves every other ticket as it is; and with
\* the sweep running at its interval, a ticket that has expired in the store
\* is eventually removed from it.
C13_Step ==
    (tickets' # tickets /\ UNCHANGED <<issued, wsVars>>) =>
        \A i \in TicketIds :
            tickets'[i] = IF tickets[i].present /\ tickets[i].expiresAt < now
                            THEN NoTicket ELSE tickets[i]

C13_Removed ==
    \A i \in TicketIds :
        (tickets[i].present /\ tickets[i].expiresAt < now) ~> ~tickets[i].present

TickCompletes == tick' # tick /\ tick'.captured /\ lpc' = "select"

\* The last pass through the ticker branch captured a frame and wrote all its
\* copies.
TickCompleted == tick.captured /\ tick.written = tick.copies

\* C14: a tick that captures a frame (and whose writes succeed) writes exactly
\* max(1, expected - sent) copies, expected = floor(elapsed seconds x fps), and
\* then increases sent by that number; a tick whose write fails leaves sent as
\* it was.
C14_Step ==
    LET expected == (elapsed * fps) \div ClockHz
        copies == IF expected - framesSent > 1 THEN expected - framesSent ELSE 1
    IN  /\ TickCompletes =>
              /\ framesWritten' = framesWritten + copies
              /\ framesSent' = framesSent + copies
              /\ tick'.expected = expected /\ tick'.before = framesSent
        /\ framesSent' # framesSent => TickCompletes

C14_FrameAccounting == [][C14_Step]_vars

\* fps = 5, the tick comes 3 intervals (0.6 s) after the start: 3 - sent copies
C14_Witness ==
    /\ fps = 5 /\ TickCompleted
    /\ tick.expected = 3 /\ tick.before = 1 /\ tick.written = 2 /\ framesSent = 3

\* C15: after every tick that captured a frame, the cumulative number of
\* frames written equals floor(elapsed x fps) as computed on that tick, and
\* the sent count never runs ahead of the expected count.
C15_SentEqualsExpected ==
    TickCompleted => framesWritten = tick.expected /\ framesSent <= tick.expected

\* C15, amended: after every tick that captured a frame and wrote its copies,
\* the cumulative number of frames written is the sent count, which is
\* max(sent before + 1, expected): never below the expected count, equal to it
\* when the expected count exceeded the count before the tick, and ahead of
\* it when the tick came with expected <= sent.
C15_SentTracksExpected ==
    TickCompleted =>
        /\ framesWritten = framesSent
        /\ framesSent = tick.before + tick.copies
        /\ framesSent >= tick.before + 1
        /\ framesSent >= tick.expected
        /\ tick.expected > tick.before => framesSent = tick.expected
        /\ tick.expected <= tick.before => framesSent = tick.before + 1

\* bursty ticks: the sent count is two ahead of the expected count
C15_Witness == TickCompleted /\ tick.expected >= 1 /\ framesSent >= tick.expected + 2

\* C16: no tick that captures a frame sends zero frames: the number of copies
\* to write is at least one, and a tick that goes through has written at
\* least one frame.
C16_Copies == tick.captured => tick.copies >= 1

C16_Step == TickCompletes => framesWritten' > framesWritten

C16_NeverZeroFrames == [][C16_Step]_vars /\ []C16_Copies

\* a tick that came when nothing was due wrote one frame
C16_Witness == TickCompleted /\ tick.expected < tick.before /\ tick.written = 1

\* C17: on cancellation the loop closes the encoder's input and then waits; it
\* returns the encoder's own exit result without a kill when the encoder's
\* exit is received, and kills the encoder and returns the shutdown-timeout
\* error when the grace timer fires; no frame is written once the input is
\* closed.
C17_Step ==
    /\ lpc = "select" /\ lpc' = "waiting" => ctxDone /\ ~stdinOpen'
    /\ lpc = "waiting" /\ lpc' # "waiting" =>
          /\ lpc' = "returned"
          /\ \/ /\ lret' \in {"nil", "exit"} /\ lret' = ffmpegDone
                /\ ffmpeg = "exited" /\ ffmpeg' = "exited"
             \/ /\ lret' = "timeout"
                /\ ffmpeg' \in {"killed", "exited"}
                /\ ffmpeg' = "exited" => ffmpeg = "exited"
    /\ ~stdinOpen => framesWritten' = framesWritten
    /\ ffmpeg' = "killed" /\ ffmpeg # "killed" => lpc = "waiting" /\ lret' = "timeout"

C17_Waiting == lpc = "waiting" => ~stdinOpen

C17_GracefulShutdown == [][C17_Step]_vars /\ []C17_Waiting

\* cancelled after frames were written, the encoder was killed at the timeout
C17_Witness ==
    lret = "timeout" /\ ffmpeg = "killed" /\ ctxDone /\ framesWritten > 0 /\ ~stdinOpen

\* C18: whenever recordLoop has returned after the encoder was started, the
\* encoder's input pipe is closed and the encoder has exited or been killed.
C18_EncoderReleased ==
    lpc = "returned" /\ ffmpeg # "none" => ~stdinOpen /\ ffmpeg \in {"exited", "killed"}

(***************************************************************************)
(* Claims on the completion of a recording                                 *)
(***************************************************************************)
AfterStatus == {"teardown1", "teardown2", "done"}

\* C19: the recording of a StartRecording call that returned success has its
\* status updated exactly once, when its recordLoop has returned: to COMPLETED
\* iff recordLoop returned nil (which only a cancelled loop whose encoder
\* exited cleanly does), to FAILED otherwise; after the update the call's
\* goroutine only tears down, and nothing starts it again.
C19_Step ==
    \A c \in Calls :
        /\ ret[c] = "ok" /\ recStatus'[c] # recStatus[c] =>
              /\ pc[c] = "status" /\ pc'[c] = "teardown1"
              /\ recStatus[c] = "RECORDING"
              /\ recStatus'[c] = IF loopErr[c] = "nil" THEN "COMPLETED" ELSE "FAILED"
        /\ pc[c] = "status" /\ pc'[c] # "status" => recStatus'[c] # recStatus[c]
        /\ loopErr[c] # "nil" /\ loopErr'[c] = "nil" => c \in cancelled /\ pc[c] = "waiting"
        /\ pc[c] \in AfterStatus => pc'[c] \in AfterStatus /\ recStatus'[c] = recStatus[c]

C19_Status ==
    \A c \in Calls :
        ret[c] = "ok" =>
            /\ pc[c] \in BeforeTeardown => recStatus[c] = "RECORDING"
            /\ pc[c] \in AfterStatus => recStatus[c] \in {"COMPLETED", "FAILED"}
            /\ pc[c] = "status" => loopErr[c] # "none"

C19_StatusOnce == [][C19_Step]_vars /\ []C19_Status

\* one recording stopped and completed, another failed by itself
C19_Witness ==
    \E c \in Calls : \E d \in Calls \ {c} :
        /\ pc[c] = "done" /\ recStatus[c] = "COMPLETED" /\ c \in cancelled
        /\ pc[d] = "done" /\ recStatus[d] = "FAILED" /\ ret[d] = "ok" /\ d \notin cancelled

(***************************************************************************)
(* Claims on the interactive session                                       *)
(***************************************************************************)
\* The session is over: HandleInteractive has returned, the stream goroutine
\* has stopped, the browser context and the connection are closed.
SessionEnded(k) ==
    /\ ipc[k] = "returned"
    /\ opc[k] = "stopped"
    /\ ~bctxOpen[k]
    /\ ~connOpen[k]

\* C20: after an inbound read error or an outbound frame-write error the whole
\* session ends: HandleInteractive returns, both loops stop, and the browser
\* context and the connection are closed.
C20_ErrorEndsSession ==
    \A k \in Interactive : (ierr[k] # "none") ~> SessionEnded(k)

\* The state of the interactive connection of request r.  The connection is
\* STREAMING from the upgrade until HandleInteractive returns; ReadMessage
\* reports the peer's close as an error, which gives CLOSED_BY_PEER.
ConnState(r) ==
    IF wpc[r] = "refused" THEN "REFUSED"
    ELSE IF wpc[r] # "streaming" THEN "AWAITING_UPGRADE"
    ELSE IF ipc[r] # "returned" THEN "STREAMING"
    ELSE IF iret[r] = "nil" THEN "CLOSED_BY_SAVE"
    ELSE IF iret[r] = "peerclose" THEN "CLOSED_BY_PEER"
    ELSE "CLOSED_BY_ERROR"

ClosedStates == {"CLOSED_BY_SAVE", "CLOSED_BY_ERROR", "CLOSED_BY_PEER"}

\* the sessions that belong to a request
Connections == Reqs \cap Interactive

C21_Step ==
    \A r \in Connections :
        LET from == ConnState(r)
            to == ConnState(r)'
        IN  /\ from # to =>
                  \/ from = "AWAITING_UPGRADE" /\ to \in {"STREAMING", "REFUSED"}
                  \/ from = "STREAMING" /\ to \in ClosedStates
            \* only a save calls StorageState, and it ends the session
            /\ saved'[r] # saved[r] => from = "STREAMING" /\ to = "CLOSED_BY_SAVE"
            /\ from = "STREAMING" /\ to = "CLOSED_BY_SAVE" => saved'[r] # "none"
            \* a closed session does nothing more
            /\ from \in ClosedStates =>
                  /\ ipc'[r] = ipc[r] /\ iret'[r] = iret[r] /\ saved'[r] = saved[r]
                  /\ ~connOpen'[r] /\ ~bctxOpen'[r]
                  /\ pageOp' # pageOp /\ pageOp'.k = r =>
                        pageOp'.op \notin PageCommands /\ ~pageOp'.ok
            \* commands and captures reach the page of a streaming session only
            /\ pageOp' # pageOp /\ pageOp'.k = r
                  /\ (pageOp'.op \in PageCommands \/ pageOp'.ok) => from = "STREAMING"

C21_Closed ==
    \A r \in Connections :
        /\ ConnState(r) \in ClosedStates => ~connOpen[r] /\ ~bctxOpen[r]
        /\ ConnState(r) = "CLOSED_BY_SAVE" <=> saved[r] # "none"
        /\ ConnState(r) = "CLOSED_BY_SAVE" <=> ipc[r] = "returned" /\ iret[r] = "nil"
        /\ ierr[r] = "read" => ConnState(r) \in {"CLOSED_BY_ERROR", "CLOSED_BY_PEER"}
        \* a session runs on an upgraded connection, which took a ticket of its own
        /\ ipc[r] # "setup" =>
              /\ wpc[r] = "streaming" /\ wresp[r] = 101 /\ wex[r] = "ok"
              /\ wheld[r].task = InteractiveTask(r)
              /\ \A q \in Connections \ {r} : wex[q] = "ok" => wticket[q] # wticket[r]

\* C21: an interactive connection goes from awaiting the upgrade to streaming
\* to one closed state and nowhere else.  A save calls StorageState on the
\* task's state file and ends the session with a nil result, the connection
\* and the browser context closed; a read error or the peer's close ends it
\* with an error; a closed session is final - no command reaches its page
\* and it never streams again; and every session runs on a connection that
\* was upgraded after exchanging a ticket no other request has used.
C21_ConnectionLifecycle == [][C21_Step]_vars /\ []C21_Closed

\* one session closed by a save that wrote the state file, and a later request
\* that presents the same ticket again is refused
C21_Witness ==
    \E r \in Connections : \E q \in Reqs \ {r} :
        /\ ConnState(r) = "CLOSED_BY_SAVE" /\ saved[r] = "written"
        /\ pageOp.k = r /\ pageOp.op \in PageCommands
        /\ wticket[q] = wticket[r] /\ ConnState(q) = "REFUSED"

\* C22: every frame that the stream loop of an interactive session captures is
\* stored in the frame cache under the session's task, where GetLatestFrame
\* finds it.
C22_StreamFillsCache ==
    [][\A k \in Interactive :
          pageOp' # pageOp /\ pageOp' = [k |-> k, op |-> "screenshot", ok |-> TRUE] =>
              GetLatestFrame(InteractiveTask(k))' # None]_vars

(***************************************************************************)
(* Claims on the frame cache                                               *)
(***************************************************************************)
C23_Step ==
    /\ \* the result of a call: absent, or a new slice holding the cached bytes
       lastGot' # lastGot =>
          IF cachedBuf = None
            THEN lastGot' = Absent
            ELSE /\ lastGot'.kind = "frame"
                 /\ lastGot'.buf \notin LiveBufs
                 /\ bufs'[lastGot'.buf] = lastPut
    /\ \* a write into a returned slice changes that slice and no other
       \A b \in gotBufs :
          bufs'[b] # bufs[b] => \A c \in LiveBufs \ {b} : bufs'[c] = bufs[c]
    /\ \* a store or an eviction changes no slice already returned
       cachedBuf' # cachedBuf => \A b \in gotBufs : bufs'[b] = bufs[b]

C23_Cached ==
    /\ cachedBuf = None <=> lastPut = NoBytes
    /\ cachedBuf = None <=> GetLatestFrame(LoopTask) = None
    /\ cachedBuf # None => bufs[cachedBuf] = lastPut
    /\ cachedBuf \notin gotBufs

\* C23: GetLatestFrame returns absent when no frame is cached for the task and
\* otherwise a new slice holding the frame stored last (a store overwrites the
\* one before); writing into a returned slice changes neither the cached frame
\* nor any other returned slice, and a later store changes no returned slice.
C23_DefensiveCopy == [][C23_Step]_vars /\ []C23_Cached

\* a caller has scribbled over the slice it was given, another caller holds an
\* intact copy of an older frame, and the cache holds a newer frame
C23_Witness ==
    \E b \in gotBufs : \E c \in gotBufs \ {b} :
        /\ cachedBuf # None
        /\ bufs[b] = "scribbled"
        /\ bufs[c] \in Frames /\ bufs[c] # lastPut
        /\ lastGot = [kind |-> "frame", buf |-> b]

(***************************************************************************)
(* Claims on the SSRF guard and the preview                                *)
(***************************************************************************)
\* The URL parses, its scheme is http or https, its host resolves, and every
\* resolved address is public.
PublicTarget(u) ==
    /\ u.parses
    /\ u.scheme \in {"http", "https"}
    /\ u.ips # {}
    /\ u.ips \subseteq {"public"}

\* C24: validateURL returns an error when the URL does not parse, its scheme is
\* not http or https, its host does not resolve, or one of the resolved
\* addresses is loopback, link-local, private or unspecified; it succeeds only
\* when every resolved address is public.
C24_OnlyPublicTargets ==
    pcheck # "none" => (pcheck = "ok" <=> PublicTarget(purl))

C25_Step ==
    /\ pops' # pops => pcheck = "ok" /\ validateURL(purl)
    /\ ppc = "idle" /\ ppc' # "idle" /\ ~validateURL(purl') =>
          ppc' = "returned" /\ pret' = "security" /\ pops' = {}

C25_Rejected ==
    pcheck = "error" => ppc = "returned" /\ pret = "security" /\ pops = {}

\* C25: CapturePreview calls validateURL before anything else; when validateURL
\* rejects the target the call returns the security-check error and makes no
\* browser operation - no context, no navigation, no screenshot - so that it
\* returns that error even on a Worker that has no browser.
C25_ValidateFirst == [][C25_Step]_vars /\ []C25_Rejected

\* a private target rejected on a Worker without a browser
C25_Witness ==
    /\ ppc = "returned" /\ pret = "security" /\ pcheck = "error"
    /\ ~pbrowser /\ purl.parses /\ purl.scheme = "http" /\ purl.ips = {"private"}

(***************************************************************************)
(* Claims on the JPEG quality                                              *)
(***************************************************************************)
Clamp(x, lo, hi) == IF x < lo THEN lo ELSE IF x > hi THEN hi ELSE x

\* The integers 0 .. 100 nearest to 100 - c/2, a half counted both ways.
Nearest(c) == {q \in 0 .. 100 : 2 * q - 1 <= 200 - c /\ 200 - c <= 2 * q + 1}

\* round(100 - c/2): the nearest integer, a half going away from zero.
Rounded(c) == CHOOSE q \in Nearest(c) : \A r \in Nearest(c) : r <= q

\* 100 - c/2 with its fraction dropped.
Truncated(c) == CHOOSE q \in Nearest(c) : \A r \in Nearest(c) : q <= r

\* C26: for every integer CRF the result is
\* clamp(round(100 - c/2), MinJpegQuality, MaxJpegQuality), c being the CRF
\* clamped to [0, 51] and round the rounding to the nearest integer.
C26_RoundedQuality ==
    crfIn # NoCrf =>
        quality = Clamp(Rounded(Clamp(crfIn, 0, MaxCrf)), MinJpegQuality, MaxJpegQuality)

\* C26, amended: the result is clamp(t, MinJpegQuality, MaxJpegQuality), t being
\* 100 - c/2 with its fraction dropped (a half goes down), c the CRF clamped
\* to [0, 51].
C26_TruncatedQuality ==
    crfIn # NoCrf =>
        quality = Clamp(Truncated(Clamp(crfIn, 0, MaxCrf)), MinJpegQuality, MaxJpegQuality)

\* crf 23: 100 - 11.5 = 88.5 becomes 88
C26_Witness == crfIn = 23 /\ quality = 88

\* C27: the result for crf is the result for crf clamped to [0, 51], lies in
\* [MinJpegQuality, MaxJpegQuality] and never increases with crf; it is
\* MaxJpegQuality for 0 and 1, 91 for 18, 88 for 23, 86 for 28 and 74 for 51,
\* hence MaxJpegQuality for a negative crf and 74 for a crf above 51.
C27_QualityTable ==
    crfIn # NoCrf =>
        /\ quality = calculateJpegQuality(Clamp(crfIn, 0, MaxCrf))
        /\ MinJpegQuality <= quality /\ quality <= MaxJpegQuality
        /\ \A d \in CrfValues : d <= crfIn => calculateJpegQuality(d) >= quality
        /\ crfIn \in {0, 1} => quality = MaxJpegQuality /\ quality = 95
        /\ crfIn = 18 => quality = 91
        /\ crfIn = 23 => quality = 88
        /\ crfIn = 28 => quality = 86
        /\ crfIn = MaxCrf => quality = 74
        /\ crfIn < 0 => quality = MaxJpegQuality
        /\ crfIn > MaxCrf => quality = 74

\* the largest crf tried, far above 51
C27_Witness == crfIn = MaxCrf + CrfMargin /\ quality = 74

(***************************************************************************)
(* Claims on the origin check                                              *)
(***************************************************************************)
\* the parts of a header value in lower case
LowerCase(a) == [i \in 1 .. Len(a) |-> IF a[i] = "EXAMPLE.COM" THEN "example.com" ELSE a[i]]

\* C28: the origin check accepts a request iff it has no Origin header, or its
\* Origin parses as a URL whose host (with the port) equals the request's
\* Host; an Origin with another host, or one that does not parse, is refused.
\* Host names are compared as host names, that is without regard to letter
\* case.
C28_SameOrigin ==
    oaccept # "none" =>
        (oaccept = "accept" <=>
            \/ ohdr = <<>>
            \/ /\ ParseOrigin(ohdr).ok
               /\ LowerCase(ParseOrigin(ohdr).Host) = LowerCase(ohost))

\* an Origin of the request's host on another port is refused
C28_Refused ==
    /\ oaccept = "refuse"
    /\ ohdr = <<"http://", "example.com", ":8080">>
    /\ ohost = <<"example.com">>

\* an Origin of the same host in another letter case is accepted
C28_Witness ==
    /\ oaccept = "accept"
    /\ ohdr = <<"http://", "EXAMPLE.COM", ":8080">>
    /\ ohost = <<"example.com", ":8080">>

(***************************************************************************)
(* Claims on the setup of the recording                                    *)
(***************************************************************************)
\* the failed attempts among the queries made so far
FailedQueries == {i \in 1 .. Len(ntpReplies) : ~ntpReplies[i].ok}

\* recordLoop is past InjectTimeOverlay in a run with the overlay enabled
PastOverlay == uopts.timeOverlay /\ upc \in {"css", "encoder", "capturing", "returned"}
                  /\ uret \notin {"context", "page", "nav"}

C29_Step ==
    ntpReplies' # ntpReplies =>
        /\ ~ntpRet.returned
        /\ Len(ntpReplies) < NtpAttempts
        /\ Len(ntpReplies') = Len(ntpReplies) + 1
        /\ FailedQueries = 1 .. Len(ntpReplies)

C29_Query ==
    /\ Len(ntpReplies) <= NtpAttempts
    \* a success is the last query made
    /\ \A i \in 1 .. Len(ntpReplies) : ntpReplies[i].ok => i = Len(ntpReplies)
    \* one sleep after each failed attempt, of 1, 2, 3 units
    /\ ntpWaits = [i \in FailedQueries |-> i]
    /\ ntpRet.returned <=>
          \/ Len(ntpReplies) > 0 /\ ntpReplies[Len(ntpReplies)].ok
          \/ Len(ntpReplies) = NtpAttempts
    /\ ntpRet.returned =>
          /\ ntpRet.err <=> FailedQueries = 1 .. NtpAttempts
          /\ ~ntpRet.err => ntpRet.offset = ntpReplies[Len(ntpReplies)].offset

C29_Fallback ==
    /\ PastOverlay =>
          /\ ntpRet.returned /\ overlay.called
          /\ overlay.offset = IF ntpRet.err THEN 0 ELSE ntpRet.offset
          /\ "overlay" \in warnings <=> ~overlay.ok
    /\ uret \in {"none", "context", "page", "nav", "ffmpeg"}
    /\ ntpRet.err /\ uencoder => uret = "none"

\* C29: the clock-offset query is attempted at most 3 times, stops at the first
\* success and returns that offset, sleeps a linearly growing time after each
\* failed attempt, and returns an error iff all 3 attempts fail; on that error
\* InjectTimeOverlay takes a zero offset and still injects the overlay, so a
\* failing clock source makes neither InjectTimeOverlay nor the recording fail.
C29_ClockOffset == [][C29_Step]_vars /\ [](C29_Query /\ C29_Fallback)

\* three failed queries, the overlay injected with a zero offset, and the
\* recording capturing frames
C29_Witness ==
    /\ ntpRet.err /\ ntpWaits = <<1, 2, 3>>
    /\ overlay.called /\ overlay.ok /\ overlay.offset = 0 /\ warnings = {}
    /\ uencoder /\ pc[LoopCall] = "loop" /\ latestFrames[LoopTask] = LoopCall

C30_Step ==
    /\ \* the navigation fails: recordLoop returns before the encoder exists
       uret' # uret /\ uret' = "nav" =>
          /\ pc'[LoopCall] = "status" /\ loopErr'[LoopCall] = "nav"
          /\ ~uencoder'
    /\ \* an injection fails: logged, and the setup goes on
       warnings' # warnings =>
          /\ pc' = pc /\ loopErr' = loopErr /\ recStatus' = recStatus /\ uret' = uret
          /\ upc' \in {"css", "encoder"}

C30_Outcome ==
    /\ uret = "nav" =>
          /\ ~uencoder /\ latestFrames[LoopTask] = None
          /\ pc[LoopCall] \in {"teardown1", "teardown2", "done"} =>
                recStatus[LoopCall] = "FAILED"
    /\ uret \in {"none", "context", "page", "nav", "ffmpeg"}
    /\ warnings # {} => upc # "start" /\ uret \in {"none", "ffmpeg"}
    /\ warnings # {} /\ upc = "capturing" => uencoder /\ pc[LoopCall] \in {"loop", "status",
                                                 "teardown1", "teardown2", "done"}

\* C30: in the recording pipeline a navigation failure fails the session
\* before the encoder is started - recordLoop returns an error and the
\* recording is marked FAILED - whereas a failure to inject the custom CSS or
\* the time overlay after a successful navigation is only logged: the encoder
\* is started and capture goes on.
C30_SetupFailures == [][C30_Step]_vars /\ []C30_Outcome

\* both injections failed, the encoder runs and a frame has been captured
C30_Witness ==
    /\ warnings = {"overlay", "css"}
    /\ uencoder /\ pc[LoopCall] = "loop" /\ latestFrames[LoopTask] = LoopCall
    /\ recStatus[LoopCall] = "RECORDING"

(***************************************************************************)
(* Claims on the task API                                                  *)
(***************************************************************************)
\* C31: a CreateTask request whose time_overlay_config is present and not one
\* of the four positions never reaches the store: it is answered with 400 and
\* inserts no row.
C31_OverlayConfigValidated ==
    tpc # "idle" /\ tbody.json /\ tbody.time_overlay_config \notin OverlayPositions \cup {""} =>
        /\ tpc = "returned"
        /\ tresp.status = 400
        /\ trows = {}

(***************************************************************************)
(* Claims on stopping, cancellation and teardown                           *)
(***************************************************************************)
\* C32: StopRecording only signals: once it has cancelled the context of a
\* capture goroutine, the session entry of the task stays in the sessions map
\* until that goroutine's own teardown runs (so that a Start for the task meets
\* the conflict and another Stop finds the session).
C32_TrackedUntilTeardown ==
    \A c \in Calls :
        c \in cancelled /\ pc[c] \in BeforeTeardown => sessions[ctask[c]] # None

\* C33: cancellation is observed at the next tick boundary: after its context
\* has been cancelled the capture loop completes at most one further capture
\* tick before it takes the ctx.Done branch.
C33_NextTickBoundary == lateTicks <= 1

\* C34: every running capture loop stays reachable by Stop: while a goroutine
\* launched by StartRecording is inside recordLoop and has not been cancelled,
\* the sessions map holds, under its task, the cancel function of that very
\* goroutine.
C34_LoopReachableByStop ==
    \A c \in Calls :
        pc[c] \in InRecordLoop /\ c \notin cancelled => sessions[ctask[c]] = c

\* C35: the frame cache holds a frame for a task only if a session is tracked
\* for that task.
C35_FramesOnlyOfSessions ==
    \A t \in Tasks : latestFrames[t] # None => sessions[t] # None

\* C36: the goroutine that sends the result of ffmpegCmd.Wait on ffmpegDone is
\* never left blocked: once recordLoop has returned, no result is on offer on
\* the channel with nobody to receive it.
C36_WaitGoroutineEnds == lpc = "returned" => ffmpegDone \notin {"nil", "exit"}

(***************************************************************************)
(* Claims on the handshake and the interactive session                     *)
(***************************************************************************)
\* the positions of a request after its Exchange has returned the ticket
PastExchange == {"exchanged", "upgrade", "streaming"}

\* C37: a ticket admits at most one handshake attempt.  The request that
\* presents an id found in the store removes the record in its first step,
\* before the task-id, task and origin checks; a record once removed never
\* comes back; so the record is gone whatever the outcome of the request, and
\* no two requests get past the Exchange on the same id.
C37_Step ==
    /\ \A r \in Reqs :
         wpc[r] = "idle" /\ wpc'[r] # "idle" /\ ExchangeFound(wticket'[r]) =>
             ~tickets'[wticket'[r]].present
    /\ \A id \in TicketIds :
         issued[id].present /\ ~tickets[id].present => ~tickets'[id].present

C37_Burnt ==
    \A r \in Reqs :
        /\ wex[r] = "ok" => ~tickets[wticket[r]].present
        /\ \A q \in Reqs \ {r} :
             wticket[q] = wticket[r] /\ wpc[r] \in PastExchange \cup {"refused"}
               /\ wex[r] = "ok" => wpc[q] \notin PastExchange

C37_OneAttempt == [][C37_Step]_vars /\ []C37_Burnt

\* a request that was refused after its Exchange (400, 403 or 404), and the
\* replay of its ticket, refused at the Exchange
C37_Witness ==
    \E r \in Reqs : \E q \in Reqs \ {r} :
        /\ wex[r] = "ok" /\ wpc[r] = "refused" /\ wresp[r] \in {400, 403, 404}
        /\ wticket[q] = wticket[r] /\ wex[q] = "notfound" /\ wresp[q] = 401

\* What the step leaves as it was in session k: the positions of both loops,
\* the connection, the browser context and the result.
SessionGoesOn(k) ==
    /\ ipc'[k] = ipc[k] /\ opc'[k] = opc[k]
    /\ connOpen'[k] = connOpen[k] /\ bctxOpen'[k] = bctxOpen[k]
    /\ iret'[k] = iret[k]

\* C38: only a save message or a read error ends the command loop of an
\* interactive session.  A message that does not parse, one of an unknown
\* type, a click, type or key (whether or not the page action fails) and a
\* failed capture of the stream loop leave both loops, the connection and the
\* browser context as they were.
C38_Step ==
    \A k \in Interactive :
        /\ ipc[k] = "reading" /\ ipc'[k] # "reading" =>
              /\ ipc'[k] = "returned"
              /\ \/ lastMsg' = [k |-> k, ev |-> "save"] /\ iret'[k] = "nil"
                 \/ lastMsg' = lastMsg /\ iret'[k] \in {"read", "peerclose"}
        /\ lastMsg' # lastMsg /\ lastMsg'.k = k /\ lastMsg'.ev # "save" => SessionGoesOn(k)
        /\ pageOp' # pageOp /\ pageOp'.k = k /\ ~pageOp'.ok => SessionGoesOn(k)

C38_OnlySaveOrReadError == [][C38_Step]_vars

\* a session still streaming after a click that failed on the page and a
\* message that did not parse or had an unknown type
C38_Witness ==
    \E k \in Interactive :
        /\ ipc[k] = "reading" /\ opc[k] = "running" /\ connOpen[k] /\ bctxOpen[k]
        /\ pageOp = [k |-> k, op |-> "click", ok |-> FALSE]
        /\ lastMsg.k = k /\ lastMsg.ev \in {"invalid", "unknown"}

\* C39: once HandleInteractive has returned, the stream goroutine eventually
\* stops (if it was launched), and from the return on no screenshot is
\* captured in the session: every attempt fails on the closed context, so the
\* goroutine cannot leave by a write error and leaves by the cancelled request
\* context.
C39_Step ==
    \A k \in Interactive :
        ipc[k] = "returned" =>
            /\ pageOp' # pageOp /\ pageOp'.k = k =>
                  pageOp'.op = "screenshot" /\ ~pageOp'.ok
            /\ opc'[k] # opc[k] => ictxDone[k] /\ opc'[k] = "stopped" /\ ierr'[k] = ierr[k]

C39_Stopped(k) == opc[k] \in {"none", "stopped"}

C39_StreamStops ==
    /\ [][C39_Step]_vars
    /\ \A k \in Interactive : (ipc[k] = "returned") ~> C39_Stopped(k)

\* a session ended by a save; afterwards a capture attempt failed, and the
\* goroutine has stopped with no write error
C39_Witness ==
    \E k \in Interactive :
        /\ ipc[k] = "returned" /\ iret[k] = "nil" /\ opc[k] = "stopped" /\ ictxDone[k]
        /\ ierr[k] = "none"
        /\ pageOp = [k |-> k, op |-> "screenshot", ok |-> FALSE]
        /\ lastMsg = [k |-> k, ev |-> "save"]

\* C40: the final status of a recording is written before the session entry
\* of its task is removed: whenever recordLoop has returned in the goroutine of
\* a successful StartRecording and no session is tracked for its task, the
\* status of its recording is COMPLETED or FAILED.
C40_StatusBeforeRemoval ==
    \A c \in Calls :
        ret[c] = "ok" /\ pc[c] \in {"status", "teardown1", "teardown2", "done"}
          /\ sessions[ctask[c]] = None =>
            recStatus[c] \in {"COMPLETED", "FAILED"}

====
